---- MODULE Spec2Model ----
(***************************************************************************)
(* Trade Radar (src/app/main.py): the crypto signal pipeline               *)
(* (normalizer, regime gate, enrichment, verdict rules, trade plan, scalp  *)
(* and whale stages) and the caches in front of it.                        *)
(*                                                                         *)
(* Numbers are fixed point: prices in units of 1e-10 (raw) and 1e-8        *)
(* (after round(x, 8)), percentages and RSI in hundredths, volumes in USD. *)
(* Python's None is the empty tuple <<>>, a present value v is <<v>>.      *)
(***************************************************************************)
EXTENDS Integers, Sequences, FiniteSets, TLC

VARIABLES
    now,            \* the clock now_ts() reads, in seconds
    cache_top,      \* _cache_top, line 110
    cache_klines,   \* _cache_klines, line 111
    cache_scalp,    \* _cache_scalp, line 112
    cache_whales,   \* _cache_whales, line 113
    store,          \* CACHE.store of the TTLCache instance, lines 52 and 65
    inp,            \* the last call made and its arguments
    out,            \* what that call returned, and its locals
    ticks,          \* how many times the clock has advanced
    calls,          \* how many calls have been started
    th,             \* request threads: where each one is in its handler, and its locals
    wr,             \* for each two-field cache, the request that wrote ts and the one that wrote data
    HISTORY,        \* HISTORY, line 556: the time of each point
    last_poll_ts,   \* _last_poll_ts, line 557
    used            \* for the scalp and the whale entry, the top-picks result it was built from

vars == <<now, cache_top, cache_klines, cache_scalp, cache_whales, store, inp, out,
          ticks, calls, th, wr, HISTORY, last_poll_ts, used>>
state == <<now, cache_top, cache_klines, cache_scalp, cache_whales, store, HISTORY, last_poll_ts>>
aux == <<ticks, calls, th, wr, used>>

----------------------------------------------------------------------------
(* Shared helpers                                                          *)

None == <<>>
Some(v) == <<v>>
IsNone(o) == o = <<>>
Val(o) == o[1]

\* now_ts() when the process starts: any epoch time, far above every TTL
BOOT_TIME == 1000

\* the threads of the server's pool that run the sync handlers of lines 921-931
Threads == {"t1", "t2"}

\* a thread with no request to serve.  pc is the line the thread is at, op the
\* route it serves, req the number of its request, top and val the locals
\* top and out, ret what the request returned; tsby is the request whose
\* ts the last freshness test read, torn whether a cached value it returned
\* was written by another request than that ts
Idle ==
    [pc |-> "idle", op |-> "none", req |-> 0, top |-> <<>>, val |-> <<>>, ret |-> <<>>,
     tsby |-> 0, torn |-> FALSE]

\* the two-field caches and who wrote them: request 0 is the import of the module
TwoFieldCaches == {"top", "scalp", "whales"}
ByImport == [c \in TwoFieldCaches |-> [ts |-> 0, data |-> 0]]

\* no entry of the scalp or the whale cache has been built yet
NothingUsed == [c \in {"scalp", "whales"} |-> None]

\* the module-level state of lines 65, 110-113 and 556-557 at import
ColdStart ==
    /\ now = BOOT_TIME
    /\ cache_top = [ts |-> 0, data |-> None]
    /\ cache_klines = <<>>
    /\ cache_scalp = [ts |-> 0, data |-> None]
    /\ cache_whales = [ts |-> 0, data |-> None]
    /\ store = <<>>
    /\ ticks = 0
    /\ calls = 0
    /\ th = [t \in Threads |-> Idle]
    /\ wr = ByImport
    /\ HISTORY = <<>>
    /\ last_poll_ts = 0
    /\ used = NothingUsed

\* clamp(x, lo, hi), line 18
clamp(x, lo, hi) ==
    LET m == IF hi < x THEN hi ELSE x
    IN  IF lo > m THEN lo ELSE m

----------------------------------------------------------------------------
(* simple_ai_signal, lines 263-308                                         *)

Gates == {"BULLISH", "NEUTRAL", "BEARISH", "PANIC"}

\* one entry of the dict get_indicators builds (lines 232-240)
IndicatorSet(interval, last, ema20, ema50, rsi, atr, atr_pct) ==
    [interval |-> interval, last |-> last, ema20 |-> ema20, ema50 |-> ema50,
     rsi |-> rsi, atr |-> atr, atr_pct |-> atr_pct]

R_PANIC == "Market PANIC: risk yuksek"
R_UP == "Trend: coklu timeframe UP"
R_DOWN == "Trend: coklu timeframe DOWN"
R_RSI_HIGH == "RSI(4h) yuksek (isinmis)"
R_RSI_LOW == "RSI(4h) dusuk (bounce ihtimali)"
R_RSI_MID == "RSI(4h) dengeli"
R_BEARISH == "Market BEARISH: kucuk pozisyon / temkin"

\* RSI thresholds 72 and 35 of lines 290-292, in hundredths
RSI_OVERHEATED == 7200
RSI_OVERSOLD == 3500

\* trend_label, lines 267-270
trend_label(ind) ==
    IF IsNone(ind.ema20) \/ IsNone(ind.ema50) THEN None
    ELSE IF Val(ind.ema20) > Val(ind.ema50) THEN Some("UP") ELSE Some("DOWN")

Votes(labels, which) ==
    Cardinality({i \in DOMAIN labels : labels[i] = Some(which)})

Take(s, n) == IF Len(s) <= n THEN s ELSE SubSeq(s, 1, n)

\* lines 281-282
up_votes(labels) == Votes(labels, "UP")
down_votes(labels) == Votes(labels, "DOWN")

\* the overheated guard of line 300
overheated(rsi4h) == ~IsNone(rsi4h) /\ Val(rsi4h) > RSI_OVERHEATED

Mut_rule_verdict(up, down, rsi4h) ==
    IF down >= 2 THEN "AVOID"
    ELSE IF up >= 2
         THEN (IF IsNone(rsi4h) \/ Val(rsi4h) > RSI_OVERHEATED THEN "WAIT" ELSE "BUY")
    ELSE "WAIT"

\* the verdict rules of lines 297-302
rule_verdict(up, down, rsi4h) ==
    IF down >= 2 THEN "AVOID"
    ELSE IF up >= 2 THEN (IF overheated(rsi4h) THEN "WAIT" ELSE "BUY")
    ELSE "WAIT"

Mut_bearish_downgrade(market_gate, verdict) == FALSE

\* the post-check of line 304
bearish_downgrade(market_gate, verdict) == market_gate = "BEARISH" /\ verdict = "BUY"

simple_ai_signal(ind1h, ind4h, ind1d, market_gate) ==
    LET labels == <<trend_label(ind1h), trend_label(ind4h), trend_label(ind1d)>>
        rsi4h == ind4h.rsi
        up == up_votes(labels)
        down == down_votes(labels)
        r1 == IF up >= 2 THEN <<R_UP>> ELSE <<>>
        r2 == IF down >= 2 THEN <<R_DOWN>> ELSE <<>>
        r3 == IF IsNone(rsi4h) THEN <<>>
              ELSE IF Val(rsi4h) > RSI_OVERHEATED THEN <<R_RSI_HIGH>>
              ELSE IF Val(rsi4h) < RSI_OVERSOLD THEN <<R_RSI_LOW>>
              ELSE <<R_RSI_MID>>
        v1 == rule_verdict(up, down, rsi4h)
        downgrade == bearish_downgrade(market_gate, v1)
        reasons == r1 \o r2 \o r3 \o (IF downgrade THEN <<R_BEARISH>> ELSE <<>>)
    IN  IF market_gate = "PANIC"
        THEN [verdict |-> "AVOID", reasons |-> <<R_PANIC>>]
        ELSE [verdict |-> IF downgrade THEN "WAIT" ELSE v1, reasons |-> Take(reasons, 6)]

----------------------------------------------------------------------------
(* Numbers and strings                                                     *)

\* A numeric field as the exchange sends it: <<n>> a finite decimal (fixed
\* point), <<>> a missing or unparsable one.  safe_float, lines 21-25.
safe_float(x) == IF x = <<>> THEN 0 ELSE x[1]

\* round(n / d) to the nearest integer (d > 0).  A tie is decided by the
\* binary representation of the float: up says which way it falls.
Round(n, d, up) ==
    LET q == n \div d
        r == n % d
    IN  IF 2 * r < d THEN q
        ELSE IF 2 * r > d THEN q + 1
        ELSE IF up THEN q + 1 ELSE q

Abs(x) == IF x < 0 THEN 0 - x ELSE x

\* str.endswith
EndsWith(s, suf) ==
    Len(s) >= Len(suf) /\ SubSeq(s, Len(s) - Len(suf) + 1, Len(s)) = suf

\* stable sort, largest key first: sorted(..., reverse=True) and
\* list.sort(reverse=True); key[i] is the sort key of s[i]
SortDesc(s, key) ==
    LET Ins(sorted, i) ==
            LET lower == {k \in 1..Len(sorted) : key[sorted[k]] < key[i]}
                pos == IF lower = {} THEN Len(sorted) + 1
                       ELSE CHOOSE k \in lower : \A j \in lower : k <= j
            IN  SubSeq(sorted, 1, pos - 1) \o <<i>> \o SubSeq(sorted, pos, Len(sorted))
        f[i \in 0..Len(s)] == IF i = 0 THEN <<>> ELSE Ins(f[i - 1], i)
    IN  [k \in 1..Len(s) |-> s[f[Len(s)][k]]]

----------------------------------------------------------------------------
(* Configuration, lines 73-108                                             *)

CRYPTO_CACHE_TTL == 30
KLINES_TTL == 90
SCALP_TTL == 30
WHALE_TTL == 20
VOL_MIN_USD == 60000000
\* PCT_MIN 2.0 and PCT_MAX 25.0, in thousandths of a percent
PCT_MIN == 2000
PCT_MAX == 25000
TOP_N == 10

STABLE_SKIP ==
    {"USDT", "USDC", "BUSD", "TUSD", "FDUSD", "DAI", "EUR", "TRY", "BRL", "GBP", "AUD",
     "RUB", "UAH"}
BAD_SUFFIXES == {"UPUSDT", "DOWNUSDT", "BULLUSDT", "BEARUSDT"}

----------------------------------------------------------------------------
(* build_top_picks: the normalizer, lines 312-329                          *)

\* A raw ticker of /api/v3/ticker/24hr: lastPrice in 1e-10, priceChangePercent
\* in thousandths of a percent, quoteVolume in USD.
Ticker(sym, last, pct, qv) ==
    [symbol |-> sym, lastPrice |-> last, priceChangePercent |-> pct, quoteVolume |-> qv]

Mut_quote_ok(sym) == TRUE

\* lines 315-318
quote_ok(sym) ==
    EndsWith(sym, "USDT") /\ ~(\E suf \in BAD_SUFFIXES : EndsWith(sym, suf))

\* sym[:-4], line 319
base_of(sym) == SubSeq(sym, 1, Len(sym) - 4)

\* line 320
base_ok(base) == base # "" /\ base \notin STABLE_SKIP

Mut_positive(last, qv) == ~(last < 0 \/ qv < 0)

\* line 326
positive(last, qv) == ~(last <= 0 \/ qv <= 0)

\* one pass of the loop of lines 313-329: <<>> when the ticker is skipped
normalize_one(t) ==
    LET sym == t.symbol
        last == safe_float(t.lastPrice)
        p24 == safe_float(t.priceChangePercent)
        qv == safe_float(t.quoteVolume)
    IN  IF ~quote_ok(sym) THEN <<>>
        ELSE IF ~base_ok(base_of(sym)) THEN <<>>
        ELSE IF ~positive(last, qv) THEN <<>>
        ELSE <<[symbol |-> base_of(sym), pair |-> sym, price |-> last,
                chg24_pct |-> p24, vol24_usd |-> qv]>>

\* rows_all after the loop of lines 312-329
normalize(data) ==
    LET f[i \in 0..Len(data)] == IF i = 0 THEN <<>> ELSE f[i - 1] \o normalize_one(data[i])
    IN  f[Len(data)]

----------------------------------------------------------------------------
(* compute_market_mode_from_rows, lines 244-261                            *)

\* by_sym.get(sym): the last row of that symbol, <<>> when there is none
row_of(rows, sym) ==
    LET at == {i \in 1..Len(rows) : rows[i].symbol = sym}
    IN  IF at = {} THEN <<>>
        ELSE <<rows[CHOOSE i \in at : \A j \in at : j <= i]>>

\* twice statistics.median of a non-empty list
median_x2(xs) ==
    LET srt == SortDesc(xs, xs)
        n == Len(srt)
    IN  IF n % 2 = 1 THEN 2 * srt[(n + 1) \div 2]
        ELSE srt[n \div 2] + srt[n \div 2 + 1]

\* the thresholds 1.2 and 0.4 of lines 253-260, in 1e-4 of a percent
IDX_STRONG == 12000
IDX_MILD == 4000

Mut_mode_label(idx10) ==
    IF idx10 >= IDX_STRONG THEN <<"STRONG BULLISH", "BULLISH">>
    ELSE IF idx10 >= IDX_MILD THEN <<"BULLISH", "BULLISH">>
    ELSE IF idx10 <= 0 - IDX_STRONG THEN <<"PANIC", "PANIC">>
    ELSE IF idx10 <= 0 - IDX_MILD THEN <<"BEARISH", "BEARISH">>
    ELSE <<"NEUTRAL", "NEUTRAL">>

\* the tests of lines 253-261, in their order: <<market mode, gate>>
mode_label(idx10) ==
    IF idx10 > IDX_STRONG THEN <<"STRONG BULLISH", "BULLISH">>
    ELSE IF idx10 > IDX_MILD THEN <<"BULLISH", "BULLISH">>
    ELSE IF idx10 < 0 - IDX_STRONG THEN <<"PANIC", "PANIC">>
    ELSE IF idx10 < 0 - IDX_MILD THEN <<"BEARISH", "BEARISH">>
    ELSE <<"NEUTRAL", "NEUTRAL">>

\* idx = 0.5 * btc + 0.3 * eth + 0.2 * median20 is kept as 10 * idx, in
\* thousandths of a percent, that is in 1e-4 of a percent.
compute_market_mode_from_rows(rows_by_vol, up) ==
    LET btc == row_of(rows_by_vol, "BTC")
        eth == row_of(rows_by_vol, "ETH")
        btc_pct == IF btc # <<>> THEN btc[1].chg24_pct ELSE 0
        eth_pct == IF eth # <<>> THEN eth[1].chg24_pct ELSE 0
        top20 == IF Len(rows_by_vol) >= 20 THEN SubSeq(rows_by_vol, 1, 20) ELSE rows_by_vol
        med2 == IF top20 # <<>> THEN median_x2([i \in 1..Len(top20) |-> top20[i].chg24_pct])
                ELSE 0
        idx10 == 5 * btc_pct + 3 * eth_pct + med2
        label == mode_label(idx10)
    IN  [market_mode |-> label[1], gate |-> label[2],
         index |-> Round(idx10, 100, up), btc_24h |-> Round(btc_pct, 10, up),
         eth_24h |-> Round(eth_pct, 10, up), median20_24h |-> Round(med2, 20, up)]

----------------------------------------------------------------------------
(* score_coin, lines 188-198                                               *)

\* math.log10(v) in 1e-6, for the volumes of the model
Log10Micro(v) ==
    CASE v = 1 -> 0
      [] v = 10000000 -> 7000000
      [] v = 31622777 -> 7500000
      [] v = 59999999 -> 7778151
      [] v = 60000000 -> 7778151
      [] v = 60000001 -> 7778151
      [] v = 100000000 -> 8000000
      [] v = 200000000 -> 8301030
      [] v = 1000000000 -> 9000000
      [] v = 2000000000 -> 9301030

\* the default of the parameter spread_hint of line 188, in thousandths
SPREAD_HINT == 2

Mut_gate_penalty(p24, gate) == 0

\* lines 194-197: what the gate takes off the base, in 1e-6
gate_penalty(p24, gate) ==
    IF gate \in {"BEARISH", "PANIC"}
    THEN 6000000 + (IF p24 > 8000 THEN 4000000 ELSE 0)
    ELSE 0

Mut_score_of_log(p24, lg, spread_hint, gate, up) ==
    Round(34 * ((p24 + 18000) * 25) + 52 * (((lg - 7500000) * 2) \div 5)
            + 14 * (((10 - spread_hint) * 1000000) \div (10 - 1)) - gate_penalty(p24, gate),
          100000, up)

\* lines 189-198 given lg = math.log10(max(vol24_usd, 1.0)) in 1e-6: the
\* score in tenths; p24 in thousandths of a percent, spread_hint in
\* thousandths.  The terms are kept in 1e-4 (momentum, v, s) and 1e-6 (base).
score_of_log(p24, lg, spread_hint, gate, up) ==
    LET p24c == clamp(p24, 0 - 18000, 22000)
        momentum == clamp((p24c + 18000) * 25, 0, 1000000)
        v == clamp(((lg - 7500000) * 2) \div 5, 0, 1000000)
        s == clamp(((10 - spread_hint) * 1000000) \div (10 - 1), 0, 1000000)
        base == 34 * momentum + 52 * v + 14 * s - gate_penalty(p24, gate)
    IN  Round(clamp(base, 0, 100000000), 100000, up)

\* score_coin as line 343 calls it, with the default spread_hint
score_coin(p24, vol24_usd, gate, up) ==
    score_of_log(p24, Log10Micro(IF vol24_usd > 1 THEN vol24_usd ELSE 1), SPREAD_HINT, gate, up)

----------------------------------------------------------------------------
(* build_top_picks: filter, score, rank, lines 334-355                     *)

\* 0.00001, the floor of line 341, in 1e-10
PRICE_FLOOR == 100000

Mut_price_too_small(price) == FALSE

\* line 341
price_too_small(price) == price < PRICE_FLOOR

Mut_row_passes(r) ==
    /\ ~(Abs(r.chg24_pct) < PCT_MIN \/ Abs(r.chg24_pct) > PCT_MAX)
    /\ ~price_too_small(r.price)

\* lines 336-342: whether the row is kept
row_passes(r) ==
    /\ ~(r.vol24_usd < VOL_MIN_USD)
    /\ ~(Abs(r.chg24_pct) < PCT_MIN \/ Abs(r.chg24_pct) > PCT_MAX)
    /\ ~price_too_small(r.price)

\* lines 344-352: price in 1e-8, chg24_pct in hundredths, score in tenths
pick_of(r, gate, up) ==
    [symbol |-> r.symbol, pair |-> r.pair, price |-> Round(r.price, 100, up),
     chg24_pct |-> Round(r.chg24_pct, 10, up), vol24_usd |-> r.vol24_usd,
     score |-> score_coin(r.chg24_pct, r.vol24_usd, gate, up)]

Mut_top_n(picks) == Take(picks, TOP_N)

\* lines 354-355: picks.sort(key=score, reverse=True); picks = picks[:TOP_N]
top_n(picks) == Take(SortDesc(picks, [k \in 1..Len(picks) |-> picks[k].score]), TOP_N)

\* picks after lines 334-355
rank(rows_all, gate, up) ==
    LET f[i \in 0..Len(rows_all)] ==
            IF i = 0 THEN <<>>
            ELSE IF row_passes(rows_all[i]) THEN Append(f[i - 1], pick_of(rows_all[i], gate, up))
            ELSE f[i - 1]
    IN  top_n(f[Len(rows_all)])

----------------------------------------------------------------------------
(* get_indicators, lines 211-242                                           *)

Intervals == <<"1h", "4h", "1d">>

\* What the candles of one (symbol, interval) come to, lines 219-229: the
\* last close, ema20, ema50, atr14 in 1e-10 and rsi14 in thousandths, each
\* <<>> when the series is too short.
Candles(last, ema20, ema50, rsi14, atr14) ==
    [last |-> last, ema20 |-> ema20, ema50 |-> ema50, rsi14 |-> rsi14, atr14 |-> atr14]

\* Python truth of an optional number: neither None nor 0
Truthy(o) == o # None /\ Val(o) # 0

\* lines 230-240: last, ema20, ema50, atr in 1e-8, rsi and atr_pct in hundredths
indicator_data(interval, k, up) ==
    LET r8(o) == IF Truthy(o) THEN Some(Round(Val(o), 100, up)) ELSE None
        atr_pct == IF Truthy(k.atr14) /\ Truthy(k.last) /\ Val(k.last) > 0
                   THEN Some(Round(Val(k.atr14) * 10000, Val(k.last), up))
                   ELSE None
    IN  IndicatorSet(interval, r8(k.last), r8(k.ema20), r8(k.ema50),
                     IF k.rsi14 # None THEN Some(Round(Val(k.rsi14), 10, up)) ELSE None,
                     r8(k.atr14), atr_pct)

Mut_fresh(now_, ts, ttl) == now_ - ts < ttl

\* the freshness test of lines 58, 214, 395, 408, 475
fresh(now_, ts, ttl) == now_ - ts <= ttl

\* lines 213-214: _cache_klines maps (symbol, interval) to {"ts", "data"}
klines_hit(ck, key, now_) == key \in DOMAIN ck /\ fresh(now_, ck[key].ts, KLINES_TTL)

\* klines[key] is what fetch_binance_klines would deliver now: <<>> when the
\* fetch raises, else <<candles>>.  Returns the data (or the exception), the
\* cache after the call and the number of fetches made.
get_indicators(symbol, interval, ck, now_, klines, up) ==
    LET key == <<symbol, interval>>
    IN  IF klines_hit(ck, key, now_)
        THEN [raised |-> FALSE, data |-> ck[key].data, ck |-> ck, fetches |-> 0]
        ELSE IF klines[key] = <<>>
        THEN [raised |-> TRUE, data |-> None, ck |-> ck, fetches |-> 1]
        ELSE LET data == indicator_data(interval, klines[key][1], up)
             IN  [raised |-> FALSE, data |-> data,
                  ck |-> (key :> [ts |-> now_, data |-> data]) @@ ck, fetches |-> 1]

----------------------------------------------------------------------------
(* build_top_picks: enrichment, lines 357-392                              *)

\* lines 364-369, in 1e-8
plan_of(price, up) ==
    [entry |-> price, stop |-> Round(price * 97, 100, up),
     tp1 |-> Round(price * 104, 100, up), tp2 |-> Round(price * 107, 100, up)]

\* the outcome of one pass of the loop of lines 358-371 from the state
\* st = [raised, enriched, ck, fetches], given what the three
\* get_indicators calls (g1, g4, gd) and simple_ai_signal (sig) came to: an
\* exception of get_indicators leaves the loop
enrich_step(st, p, gate, g1, g4, gd, sig, up) ==
    IF g1.raised
    THEN [st EXCEPT !.raised = TRUE, !.ck = g1.ck, !.fetches = @ + g1.fetches]
    ELSE IF g4.raised
    THEN [st EXCEPT !.raised = TRUE, !.ck = g4.ck, !.fetches = @ + g1.fetches + g4.fetches]
    ELSE IF gd.raised
    THEN [st EXCEPT !.raised = TRUE, !.ck = gd.ck,
                    !.fetches = @ + g1.fetches + g4.fetches + gd.fetches]
    ELSE [raised |-> FALSE,
          enriched |-> Append(st.enriched,
              [symbol |-> p.symbol, pair |-> p.pair, price |-> p.price,
               chg24_pct |-> p.chg24_pct, vol24_usd |-> p.vol24_usd, score |-> p.score,
               market_gate |-> gate,
               indicators |-> [h1 |-> g1.data, h4 |-> g4.data, d1 |-> gd.data],
               ai_signal |-> sig.verdict, ai_reasons |-> sig.reasons,
               plan |-> plan_of(p.price, up)]),
          ck |-> gd.ck,
          fetches |-> st.fetches + g1.fetches + g4.fetches + gd.fetches]

\* one pass of the loop of lines 358-371: the calls in the order of the code
enrich_one(st, p, gate, now_, klines, up) ==
    LET g1 == get_indicators(p.symbol, "1h", st.ck, now_, klines, up)
        g4 == get_indicators(p.symbol, "4h", g1.ck, now_, klines, up)
        gd == get_indicators(p.symbol, "1d", g4.ck, now_, klines, up)
        sig == simple_ai_signal(g1.data, g4.data, gd.data, gate)
    IN  enrich_step(st, p, gate, g1, g4, gd, sig, up)

\* the loop of lines 357-371
enrich(picks, gate, ck, now_, klines, up) ==
    LET f[i \in 0..Len(picks)] ==
            IF i = 0 THEN [raised |-> FALSE, enriched |-> <<>>, ck |-> ck, fetches |-> 0]
            ELSE IF f[i - 1].raised THEN f[i - 1]
            ELSE enrich_one(f[i - 1], picks[i], gate, now_, klines, up)
    IN  f[Len(picks)]

FILTERS == {"vol_min_usd", "pct_min", "pct_max", "whale_threshold_usd",
            "scalp_target_min", "scalp_target_max"}

\* what build_top_picks returns (lines 373-392) once the rows, the market
\* mode mm, the ranked picks and the enrichment e are known
build_result(rows_all, mm, picks, e, now_) ==
    [raised |-> e.raised,
     val |-> IF e.raised THEN None
             ELSE Some([ts |-> now_, source |-> "binance_multi",
                        market_mode |-> mm.market_mode, market_gate |-> mm.gate,
                        btc_24h |-> mm.btc_24h, eth_24h |-> mm.eth_24h,
                        median20_24h |-> mm.median20_24h, index |-> mm.index,
                        filters |-> FILTERS, top_picks |-> e.enriched,
                        warnings |-> <<>>]),
     ck |-> e.ck, rows_all |-> rows_all, picks |-> picks,
     kline_fetches |-> e.fetches]

\* lines 331-371 on the normalized rows: market mode, ranking, enrichment
build_from_rows(rows_all, ck, now_, klines, up) ==
    LET rows_by_vol == SortDesc(rows_all, [k \in 1..Len(rows_all) |-> rows_all[k].vol24_usd])
        mm == compute_market_mode_from_rows(rows_by_vol, up)
        picks == rank(rows_all, mm.gate, up)
        e == enrich(picks, mm.gate, ck, now_, klines, up)
    IN  build_result(rows_all, mm, picks, e, now_)

\* build_top_picks, lines 310-392.  fetched is what fetch_binance_24h_all
\* delivers: <<>> when it raises, else <<tickers>>.  Returns the exception or
\* the result, with the indicator cache after the call, the locals rows_all
\* and picks, and the number of candle fetches made.
build_top_picks(fetched, ck, now_, klines, up) ==
    IF fetched = <<>>
    THEN [raised |-> TRUE, val |-> None, ck |-> ck, rows_all |-> <<>>, picks |-> <<>>,
          kline_fetches |-> 0]
    ELSE build_from_rows(normalize(fetched[1]), ck, now_, klines, up)

----------------------------------------------------------------------------
(* get_crypto_top, lines 394-405                                           *)

W_TOP_FAILED == "Top build failed"

\* the result of lines 400-402
degraded_top(now_) ==
    [ts |-> now_, source |-> "binance_multi", market_mode |-> "UNKNOWN",
     market_gate |-> "UNKNOWN", btc_24h |-> 0, eth_24h |-> 0, median20_24h |-> 0,
     index |-> 0, filters |-> {}, top_picks |-> <<>>, warnings |-> <<W_TOP_FAILED>>]

Mut_top_try(b, now_) ==
    [raised |-> b.raised, out |-> IF b.raised THEN degraded_top(now_) ELSE b.val[1]]

\* the try/except of lines 397-402 around build_top_picks
top_try(b, now_) ==
    [raised |-> FALSE, out |-> IF b.raised THEN degraded_top(now_) ELSE b.val[1]]

Mut_top_hit(c, now_) == FALSE

\* line 395: _cache_top is {"ts", "data"}, data None until the first store
top_hit(c, now_) == c.data # None /\ fresh(now_, c.ts, CRYPTO_CACHE_TTL)

Mut_top_miss(c, b, t, now_) ==
    [raised |-> t.raised, ret |-> t.out,
     cache_top |-> IF b.raised THEN c ELSE [ts |-> now_, data |-> Some(t.out)],
     ck |-> b.ck, hit |-> FALSE, rows_all |-> b.rows_all, picks |-> b.picks,
     snapshot_fetches |-> 1, kline_fetches |-> b.kline_fetches]

\* lines 399-405 after the build b and its try/except t: the value returned
\* (or the exception), both caches after the call, and the build's locals
top_miss(c, b, t, now_) ==
    [raised |-> t.raised, ret |-> t.out,
     cache_top |-> IF t.raised THEN c ELSE [ts |-> now_, data |-> Some(t.out)],
     ck |-> b.ck, hit |-> FALSE, rows_all |-> b.rows_all, picks |-> b.picks,
     snapshot_fetches |-> 1, kline_fetches |-> b.kline_fetches]

\* the miss path of get_crypto_top, lines 397-405
top_rebuild(c, b, now_) == top_miss(c, b, top_try(b, now_), now_)

\* get_crypto_top run alone, lines 394-405
get_crypto_top(c, ck, now_, fetched, klines, up) ==
    IF top_hit(c, now_)
    THEN [raised |-> FALSE, ret |-> c.data[1], cache_top |-> c, ck |-> ck, hit |-> TRUE,
          rows_all |-> <<>>, picks |-> <<>>, snapshot_fetches |-> 0, kline_fetches |-> 0]
    ELSE top_rebuild(c, build_top_picks(fetched, ck, now_, klines, up), now_)

----------------------------------------------------------------------------
(* whale_v2, lines 407-472                                                 *)

WHALE_THRESHOLD_USD == 750000
WHALE_PICKS == 6
WHALE_EVENTS_MAX == 20

\* An aggTrades record: price p in USD, quantity q, maker flag m, and T the
\* trade time in ms, <<>> when int(tr.get("T")) raises.
Trade(p, q, m, T) == [p |-> p, q |-> q, m |-> m, T |-> T]

\* one pass of the loop of lines 425-447 from the state st = [raised, buy,
\* sell, whales, events]; events is the list shared by all symbols
scan_one(st, tr, sym, pair) ==
    LET price == safe_float(tr.p)
        qty == safe_float(tr.q)
        notional == price * qty
        is_buyer_maker == tr.m
        acc == [st EXCEPT !.sell = IF is_buyer_maker THEN @ + notional ELSE @,
                          !.buy = IF is_buyer_maker THEN @ ELSE @ + notional]
    IN  IF ~(notional >= WHALE_THRESHOLD_USD) THEN acc
        ELSE IF tr.T = <<>> THEN [acc EXCEPT !.whales = @ + 1, !.raised = TRUE]
        ELSE [acc EXCEPT !.whales = @ + 1,
                         !.events = Append(@, [symbol |-> sym, pair |-> pair,
                                               side |-> IF is_buyer_maker THEN "SELL" ELSE "BUY",
                                               usd |-> notional, price |-> price, qty |-> qty,
                                               time |-> tr.T[1] \div 1000])]

\* lines 422-447 for one symbol
scan(trades, events, sym, pair) ==
    LET f[i \in 0..Len(trades)] ==
            IF i = 0 THEN [raised |-> FALSE, buy |-> 0, sell |-> 0, whales |-> 0,
                           events |-> events]
            ELSE IF f[i - 1].raised THEN f[i - 1]
            ELSE scan_one(f[i - 1], trades[i], sym, pair)
    IN  f[Len(trades)]

E_FETCH == "fetch failed"
E_SCAN == "scan failed"

\* round(x / d * 100, 1) in tenths (d > 0), that is Round(1000 * x, d, up),
\* computed digit by digit so that no product leaves 32 bits
RoundPercent(x, d, up) ==
    LET q1 == (x * 10) \div d
        r1 == (x * 10) % d
        q2 == (r1 * 10) \div d
        r2 == (r1 * 10) % d
        q3 == (r2 * 10) \div d
        r3 == (r2 * 10) % d
    IN  q1 * 100 + q2 * 10 + q3 + Round(r3, d, up)

Mut_pressure_record(sc, sym, pair, up) ==
    [symbol |-> sym, pair |-> pair, buy_usd |-> sc.buy, sell_usd |-> sc.sell,
     pressure_idx |-> IF sc.buy + sc.sell <= 0 THEN 0
                      ELSE RoundPercent(sc.buy, sc.buy + sc.sell, up),
     whale_hits |-> sc.whales]

\* lines 448-457: pressure_idx in tenths
pressure_record(sc, sym, pair, up) ==
    LET total == sc.buy + sc.sell
    IN  [symbol |-> sym, pair |-> pair, buy_usd |-> sc.buy, sell_usd |-> sc.sell,
         pressure_idx |-> IF total <= 0 THEN 0 ELSE RoundPercent(sc.buy - sc.sell, total, up),
         whale_hits |-> sc.whales]

\* line 459
error_record(sym, pair, e) == [symbol |-> sym, pair |-> pair, error |-> e]

Mut_whale_except(st, p, e) == [st EXCEPT !.raised = TRUE]

\* the handler of lines 458-459
whale_except(st, p, e) ==
    [st EXCEPT !.pressure = Append(@, error_record(p.symbol, p.pair, e))]

\* one pass of the loop of lines 417-459 from the state st = [raised, events,
\* pressure, fetches]; tapes[pair] is what fetch_binance_agg_trades would
\* deliver: <<>> when it raises, else <<trades>>
whale_one(st, p, tapes, up) ==
    LET st1 == [st EXCEPT !.fetches = @ + 1]
    IN  IF tapes[p.pair] = <<>> THEN whale_except(st1, p, E_FETCH)
        ELSE LET sc == scan(tapes[p.pair][1], st.events, p.symbol, p.pair)
                 st2 == [st1 EXCEPT !.events = sc.events]
             IN  IF sc.raised THEN whale_except(st2, p, E_SCAN)
                 ELSE [st2 EXCEPT !.pressure =
                                     Append(@, pressure_record(sc, p.symbol, p.pair, up))]

\* lines 461-469 after the scan loop ended in st: the out dict, the picks
\* scanned and the number of tape fetches
whale_result(st, picks, now_) ==
    LET events == SortDesc(st.events, [k \in 1..Len(st.events) |-> st.events[k].usd])
        pressure == SortDesc(st.pressure,
                             [k \in 1..Len(st.pressure) |->
                                 IF "pressure_idx" \in DOMAIN st.pressure[k]
                                 THEN st.pressure[k].pressure_idx ELSE 0])
    IN  [raised |-> st.raised,
         out |-> [ts |-> now_, threshold_usd |-> WHALE_THRESHOLD_USD, pressure |-> pressure,
                  events |-> Take(events, WHALE_EVENTS_MAX)],
         picks |-> picks, fetches |-> st.fetches]

\* the loop of lines 415-459 over the picks
whale_scan(picks, tapes, up) ==
    LET f[i \in 0..Len(picks)] ==
            IF i = 0 THEN [raised |-> FALSE, events |-> <<>>, pressure |-> <<>>, fetches |-> 0]
            ELSE IF f[i - 1].raised THEN f[i - 1]
            ELSE whale_one(f[i - 1], picks[i], tapes, up)
    IN  f[Len(picks)]

Mut_whale_picks(top) == top.top_picks

\* line 412: the first WHALE_PICKS picks
whale_picks(top) == Take(top.top_picks, WHALE_PICKS)

\* lines 411-469, given the result of get_crypto_top()
whale_build(top, now_, tapes, up) ==
    whale_result(whale_scan(whale_picks(top), tapes, up), whale_picks(top), now_)

\* line 408
whale_hit(c, now_) == c.data # None /\ fresh(now_, c.ts, WHALE_TTL)

----------------------------------------------------------------------------
(* scalp_engine, lines 474-540                                             *)

SCALP_MAX == 12

\* A fraction num / den with den > 0.
Frac(n, d) == [num |-> n, den |-> d]
FracLess(a, b) == a.num * b.den < b.num * a.den
Mut_FracClamp(x, lo, hi) == IF FracLess(hi, x) THEN hi ELSE x

\* clamp, lines 18-19: max(lo, min(hi, x))
FracClamp(x, lo, hi) ==
    LET m == IF FracLess(hi, x) THEN hi ELSE x
    IN  IF FracLess(m, lo) THEN lo ELSE m

\* SCALP_TARGET_MIN 0.02, SCALP_TARGET_MAX 0.03, lines 83-84
SCALP_TARGET_MIN == Frac(2, 100)
SCALP_TARGET_MAX == Frac(3, 100)
\* the stop band 0.008 .. 0.02 of line 503
SCALP_STOP_MIN == Frac(8, 1000)
SCALP_STOP_MAX == Frac(2, 100)
\* SCALP_STOP_ATR_MULT 1.2 and SCALP_TAKE_ATR_MULT 1.8, lines 85-86, in tenths
SCALP_STOP_ATR_MULT == 12
SCALP_TAKE_ATR_MULT == 18
\* the RSI ceiling 75 of line 506, in hundredths
SCALP_RSI_MAX == 7500

Mut_scalp_skip(p, gate) ==
    LET atrv == safe_float(p.indicators.h4.atr)
        rsi1h == p.indicators.h1.rsi
    IN  \/ gate = "PANIC"
        \/ p.ai_signal = "AVOID"
        \/ atrv <= 0 \/ p.price <= 0
        \/ rsi1h = None \/ Val(rsi1h) > SCALP_RSI_MAX

\* lines 492-497 and 505-507: whether the pick is skipped
scalp_skip(p, gate) ==
    LET atrv == safe_float(p.indicators.h4.atr)
        price == p.price
        rsi1h == p.indicators.h1.rsi
    IN  \/ gate = "PANIC"
        \/ p.ai_signal = "AVOID"
        \/ atrv <= 0 \/ price <= 0
        \/ (rsi1h # None /\ Val(rsi1h) > SCALP_RSI_MAX)

\* lines 499-527 for a pick that is not skipped: entry, stop, take in 1e-8,
\* tp_pct, sl_pct in hundredths of a percent, rr in hundredths
opportunity(p, up) ==
    LET atrv == safe_float(p.indicators.h4.atr)
        price == p.price
        tp_pct == FracClamp(Frac(SCALP_TAKE_ATR_MULT * atrv, 10 * price),
                            SCALP_TARGET_MIN, SCALP_TARGET_MAX)
        sl_pct == FracClamp(Frac(SCALP_STOP_ATR_MULT * atrv, 10 * price),
                            SCALP_STOP_MIN, SCALP_STOP_MAX)
    IN  [symbol |-> p.symbol, pair |-> p.pair, entry |-> price,
         stop |-> Round(price * (sl_pct.den - sl_pct.num), sl_pct.den, up),
         take |-> Round(price * (tp_pct.den + tp_pct.num), tp_pct.den, up),
         tp_pct |-> Round(tp_pct.num * 10000, tp_pct.den, up),
         sl_pct |-> Round(sl_pct.num * 10000, sl_pct.den, up),
         rr |-> Round(tp_pct.num * sl_pct.den * 100, tp_pct.den * sl_pct.num, up),
         rsi_1h |-> p.indicators.h1.rsi,
         atr_pct_4h |-> safe_float(p.indicators.h4.atr_pct),
         ai_signal |-> p.ai_signal, score |-> p.score]

\* lines 478-531, given the result of get_crypto_top()
scalp_build(top, now_, up) ==
    LET gate == top.market_gate
        picks == top.top_picks
        f[i \in 0..Len(picks)] ==
            IF i = 0 THEN <<>>
            ELSE IF scalp_skip(picks[i], gate) THEN f[i - 1]
            ELSE Append(f[i - 1], opportunity(picks[i], up))
        opps == f[Len(picks)]
        srt == SortDesc(opps, [k \in 1..Len(opps) |-> opps[k].rr * 1001 + opps[k].score])
    IN  [ts |-> now_, gate |-> gate, opportunities |-> Take(srt, SCALP_MAX)]

Mut_scalp_hit(c, now_) == c.data # None

\* line 475
scalp_hit(c, now_) == c.data # None /\ fresh(now_, c.ts, SCALP_TTL)

----------------------------------------------------------------------------
(* whale_v2 and scalp_engine run alone                                     *)

\* whale_v2, lines 407-472: the value returned (or the exception) and the
\* caches after the call; top is the inner get_crypto_top() call
whale_miss(cw, top, w, now_) ==
    [raised |-> top.raised \/ w.raised, ret |-> w.out,
     cache_whales |-> IF top.raised \/ w.raised THEN cw ELSE [ts |-> now_, data |-> Some(w.out)],
     cache_top |-> top.cache_top, ck |-> top.ck, hit |-> FALSE, top |-> Some(top),
     picks |-> w.picks, tape_fetches |-> w.fetches]

\* the miss path of whale_v2, lines 410-472, after its get_crypto_top() call
whale_rebuild(cw, top, now_, tapes, up) ==
    whale_miss(cw, top, whale_build(top.ret, now_, tapes, up), now_)

\* whale_v2 run alone, lines 407-472
whale_v2(cw, c, ck, now_, fetched, klines, tapes, up) ==
    IF whale_hit(cw, now_)
    THEN [raised |-> FALSE, ret |-> cw.data[1], cache_whales |-> cw, cache_top |-> c,
          ck |-> ck, hit |-> TRUE, top |-> None, picks |-> <<>>, tape_fetches |-> 0]
    ELSE whale_rebuild(cw, get_crypto_top(c, ck, now_, fetched, klines, up), now_, tapes, up)

\* lines 537-540 after get_crypto_top() returned top and the list o was built
scalp_miss(cs, top, o, now_) ==
    [raised |-> top.raised, ret |-> o,
     cache_scalp |-> IF top.raised THEN cs ELSE [ts |-> now_, data |-> Some(o)],
     cache_top |-> top.cache_top, ck |-> top.ck, hit |-> FALSE, top |-> Some(top)]

\* the miss path of scalp_engine, lines 478-540, after its get_crypto_top() call
scalp_rebuild(cs, top, now_, up) == scalp_miss(cs, top, scalp_build(top.ret, now_, up), now_)

\* scalp_engine run alone, lines 474-540
scalp_engine(cs, c, ck, now_, fetched, klines, up) ==
    IF scalp_hit(cs, now_)
    THEN [raised |-> FALSE, ret |-> cs.data[1], cache_scalp |-> cs, cache_top |-> c,
          ck |-> ck, hit |-> TRUE, top |-> None]
    ELSE scalp_rebuild(cs, get_crypto_top(c, ck, now_, fetched, klines, up), now_, up)

----------------------------------------------------------------------------
(* Single-call specification of simple_ai_signal                           *)

MaxEma == 2
EmaValues == {None} \cup {Some(e) : e \in 1..MaxEma}
RsiValues == {None, Some(3499), Some(3500), Some(7200), Some(7201)}

SignalInds(interval, rsis) ==
    {IndicatorSet(interval, None, e20, e50, r, None, None) :
        e20 \in EmaValues, e50 \in EmaValues, r \in rsis}

InitSignal ==
    /\ ColdStart
    /\ inp \in [op : {"simple_ai_signal"}, ind1h : SignalInds("1h", {None}),
                 ind4h : SignalInds("4h", RsiValues), ind1d : SignalInds("1d", {None}),
                 gate : Gates]
    /\ out = None

CallSignal ==
    /\ inp.op = "simple_ai_signal" /\ out = None
    /\ out' = simple_ai_signal(inp.ind1h, inp.ind4h, inp.ind1d, inp.gate)
    /\ UNCHANGED <<inp, state, aux>>

NextSignal == CallSignal

SpecSignal == InitSignal /\ [][NextSignal]_vars

SignalDone == inp.op = "simple_ai_signal" /\ out # None

SigLabels == <<trend_label(inp.ind1h), trend_label(inp.ind4h), trend_label(inp.ind1d)>>
SigUp == Cardinality({i \in 1..3 : SigLabels[i] = Some("UP")})
SigDown == Cardinality({i \in 1..3 : SigLabels[i] = Some("DOWN")})
SigRsiHigh == inp.ind4h.rsi # None /\ inp.ind4h.rsi[1] > 7200

\* The decision table of the verdict rules, before any regime post-check.
SigTable ==
    IF SigDown >= 2 THEN "AVOID"
    ELSE IF SigUp >= 2 THEN (IF SigRsiHigh THEN "WAIT" ELSE "BUY")
    ELSE "WAIT"

\* C7: under gate PANIC the verdict is AVOID and the reasons are exactly the
\* single panic reason; under gate BEARISH the verdict is never BUY, and where
\* the rules alone give BUY the verdict is WAIT with the bearish reason appended
\* last.
C7_RegimeGate ==
    SignalDone =>
        /\ inp.gate = "PANIC" => out = [verdict |-> "AVOID", reasons |-> <<R_PANIC>>]
        /\ inp.gate = "BEARISH" =>
            /\ out.verdict # "BUY"
            /\ SigTable = "BUY" =>
                /\ out.verdict = "WAIT"
                /\ out.reasons # <<>>
                /\ out.reasons[Len(out.reasons)] = R_BEARISH

C7_Witness ==
    /\ SignalDone /\ inp.gate = "BEARISH" /\ SigTable = "BUY"
    /\ out.verdict = "WAIT" /\ out.reasons = <<R_UP, R_RSI_MID, R_BEARISH>>

\* C8 as stated: for a non-PANIC gate the verdict is the decision table's
\* (AVOID on two down votes, else WAIT/BUY on two up votes by the overheated
\* guard, else WAIT), and is one of BUY, WAIT, AVOID.
C8_AsStated ==
    SignalDone =>
        /\ out.verdict \in {"BUY", "WAIT", "AVOID"}
        /\ inp.gate # "PANIC" => out.verdict = SigTable

\* C8 amended: for a non-PANIC gate the verdict is the decision table's, except
\* that under gate BEARISH a BUY of the table is returned as WAIT; a missing 4h
\* RSI never triggers the overheated guard; the verdict is one of BUY, WAIT,
\* AVOID.
C8_DecisionTable ==
    SignalDone =>
        /\ out.verdict \in {"BUY", "WAIT", "AVOID"}
        /\ inp.gate # "PANIC" =>
            out.verdict = IF inp.gate = "BEARISH" /\ SigTable = "BUY" THEN "WAIT" ELSE SigTable

C8_Witness ==
    /\ SignalDone /\ inp.gate = "NEUTRAL" /\ SigUp >= 2 /\ SigDown < 2
    /\ inp.ind4h.rsi = None /\ out.verdict = "BUY"

\* the trend label as C20 states it: UP above, DOWN below, none when an EMA
\* is missing, and neither for equal EMAs
StatedLabel(ind) ==
    IF ind.ema20 = None \/ ind.ema50 = None THEN "none"
    ELSE IF ind.ema20[1] > ind.ema50[1] THEN "UP"
    ELSE IF ind.ema20[1] < ind.ema50[1] THEN "DOWN"
    ELSE "neither"

StatedVotes(which) ==
    Cardinality({ind \in {inp.ind1h, inp.ind4h, inp.ind1d} : StatedLabel(ind) = which})

\* the verdict that the rules of lines 284-306 give to the stated votes
StatedVerdict ==
    IF StatedVotes("DOWN") >= 2 THEN "AVOID"
    ELSE IF StatedVotes("UP") >= 2
    THEN (IF SigRsiHigh \/ inp.gate = "BEARISH" THEN "WAIT" ELSE "BUY")
    ELSE "WAIT"

\* an interval of the input has both EMAs and they are equal
SomeEqualEmas ==
    \E ind \in {inp.ind1h, inp.ind4h, inp.ind1d} : StatedLabel(ind) = "neither"

\* C20: the trend label of an interval is UP if ema20 > ema50, DOWN if
\* ema20 < ema50 and None if an EMA is missing, and an interval with
\* ema20 = ema50 casts neither an up nor a down vote: outside PANIC the
\* verdict is the one the votes so counted give.
C20_TrendLabel ==
    (SignalDone /\ inp.gate # "PANIC") => out.verdict = StatedVerdict

\* the same on the inputs where no interval has equal EMAs
C20_UnlessEqual ==
    (SignalDone /\ inp.gate # "PANIC" /\ ~SomeEqualEmas) => out.verdict = StatedVerdict

----------------------------------------------------------------------------
(* Single-call specification of get_crypto_top on a cold cache             *)

MaxTickers == 2
MaxPriceSteps == 60

\* candles of a rising and of a short series
K_FULL == Candles(Some(150049), Some(148051), Some(140000), Some(55004), Some(1849))
K_SHORT == Candles(Some(150049), None, None, None, None)

KlineKeys == {<<sym, Intervals[i]>> : sym \in {"BTC", "ETH"}, i \in 1..3}
KlinesAll(k) == [key \in KlineKeys |-> Some(k)]
KlinesFailAt(key0, k) == [key \in KlineKeys |-> IF key = key0 THEN None ELSE Some(k)]

SeqsUpTo(S, n) == UNION {[1..m -> S] : m \in 0..n}

\* tickers that differ in what the normalizer looks at
NormTickers ==
    {Ticker(sym, last, Some(5000), qv) :
        sym \in {"BTCUSDT", "ETHUSDT"},
        last \in {None, Some(0), Some(0 - 150000), Some(150000)},
        qv \in {None, Some(0), Some(0 - 200000000), Some(200000000)}}
    \cup {Ticker(sym, Some(150000), None, Some(200000000)) :
        sym \in {"", "USDT", "ETHBTC", "USDCUSDT", "ETHUPUSDT", "BTCDOWNUSDT"}}

\* prices around the floor 0.00001 and around the ties of round(x, 8)
PlanPrices ==
    {1, 49, 50, 99949, 99999, 2000000000}
    \cup {PRICE_FLOOR + 25 * i : i \in 0..MaxPriceSteps}

\* the snapshot of the end-to-end scenario: A, B and C
ScenarioABC ==
    <<Ticker("AUSDT", Some(150000), Some(5000), Some(200000000)),
      Ticker("BUSDT", Some(150000), Some(5000), Some(10000000)),
      Ticker("CUSDT", Some(150000), Some(40000), Some(200000000))>>

\* changes and volumes around the bounds of the filter of lines 336-340
RankPcts ==
    {s * a : s \in {0 - 1, 1},
             a \in {0, PCT_MIN - 1, PCT_MIN, 5000, 8000, 8001, 15000, PCT_MAX, PCT_MAX + 1, 40000}}
RankVols == {10000000, VOL_MIN_USD - 1, VOL_MIN_USD, VOL_MIN_USD + 1, 200000000, 2000000000}

\* a crowd of symbols: the first CrowdPassing tickers pass the filter with
\* scores that differ, the others are below the volume floor and falling
MaxCrowd == 12
CrowdPassing == MaxCrowd + 2
CrowdBases ==
    <<"ADA", "BNB", "DOT", "SOL", "XRP", "LTC", "TRX", "AVAX", "LINK", "ATOM", "NEAR", "ARB",
      "INJ", "SUI", "FIL", "ICP", "APT", "SEI", "TIA", "UNI", "AAVE", "MKR", "RUNE", "KAS">>
CrowdVols == <<VOL_MIN_USD, 100000000, 200000000, 1000000000, 2000000000>>
CrowdTicker(i) ==
    IF i <= CrowdPassing
    THEN Ticker(CrowdBases[i] \o "USDT", Some(150000), Some(PCT_MIN + 1500 * i),
                Some(CrowdVols[(i % 5) + 1]))
    ELSE Ticker(CrowdBases[i] \o "USDT", Some(150000), Some(0 - 300 * i),
                Some(VOL_MIN_USD - i))

\* the first n tickers of the crowd, rotated by k
Crowd(n, k) == [j \in 1..n |-> CrowdTicker(((j + k - 1) % n) + 1)]

\* the number of rows of line 248
MEDIAN_ROWS == 20
CrowdSizes == {1, TOP_N, MaxCrowd, MEDIAN_ROWS - 1, MEDIAN_ROWS, MEDIAN_ROWS + 2}

\* changes around the thresholds of lines 253-260 when the three rows agree
ModePcts == {s * a : s \in {0 - 1, 1}, a \in {0, 400, 401, 1200, 1201, 5000}}
ModeSnapshots ==
    {<<Ticker("BTCUSDT", Some(150000), Some(b), Some(200000000)),
       Ticker("ETHUSDT", Some(150000), Some(e), Some(100000000)),
       Ticker("AUSDT", Some(150000), Some(m), Some(VOL_MIN_USD))>> :
        b \in ModePcts, e \in ModePcts, m \in ModePcts}
    \cup {<<Ticker("AUSDT", Some(150000), Some(m), Some(VOL_MIN_USD)),
            Ticker(sym, Some(150000), Some(b), Some(200000000))>> :
        sym \in {"BTCUSDT", "ETHUSDT", "BUSDT"}, b \in ModePcts, m \in ModePcts}

RankBases ==
    {"A", "B", "C", "BTC", "ETH"} \cup {CrowdBases[i] : i \in 1..Len(CrowdBases)}
RankKlines == [key \in {<<sym, Intervals[i]>> : sym \in RankBases, i \in 1..3} |-> Some(K_FULL)]

RankSnapshots ==
    {ScenarioABC}
    \cup {<<Ticker("AUSDT", Some(150000), Some(pct), Some(vol))>> :
            pct \in RankPcts, vol \in RankVols}
    \cup {Crowd(n, k) : n \in CrowdSizes, k \in {0, 1, 5}}
    \cup ModeSnapshots

TopInputs ==
    [op : {"get_crypto_top"}, fetched : {Some(d) : d \in SeqsUpTo(NormTickers, MaxTickers)},
     klines : {KlinesAll(K_FULL)}, up : {FALSE}]
    \cup [op : {"get_crypto_top"},
          fetched : {Some(<<Ticker("BTCUSDT", Some(p), Some(5000), Some(200000000))>>) :
                        p \in PlanPrices},
          klines : {KlinesAll(K_FULL)}, up : BOOLEAN]
    \cup [op : {"get_crypto_top"},
          fetched : {None,
                     Some(<<Ticker("ETHUSDT", Some(150000), Some(5000), Some(100000000)),
                            Ticker("BTCUSDT", Some(150000), Some(5000), Some(200000000))>>)},
          klines : {KlinesAll(K_FULL), KlinesAll(K_SHORT)}
                   \cup {KlinesFailAt(key, K_FULL) : key \in KlineKeys},
          up : {FALSE}]

InitTop == ColdStart /\ inp \in TopInputs /\ out = None

CallTop ==
    /\ inp.op = "get_crypto_top" /\ out = None
    /\ out' = get_crypto_top(cache_top, cache_klines, now, inp.fetched, inp.klines, inp.up)
    /\ cache_top' = out'.cache_top
    /\ cache_klines' = out'.ck
    /\ UNCHANGED <<now, cache_scalp, cache_whales, store, inp, aux, HISTORY, last_poll_ts>>

NextTop == CallTop

SpecTop == InitTop /\ [][NextTop]_vars

\* get_crypto_top on a cold cache over the ranking snapshots
InitRank ==
    /\ ColdStart
    /\ inp \in [op : {"get_crypto_top"}, fetched : {Some(d) : d \in RankSnapshots},
                klines : {RankKlines}, up : {FALSE}]
    /\ out = None

NextRank == CallTop

SpecRank == InitRank /\ [][NextRank]_vars

TopDone == inp.op = "get_crypto_top" /\ out # None
TopBuilt == TopDone /\ inp.fetched # None

\* Ticker j of the snapshot is what row r was made from.
RowFrom(r, t) ==
    /\ t.symbol = r.pair
    /\ t.lastPrice = <<r.price>>
    /\ t.quoteVolume = <<r.vol24_usd>>
    /\ r.symbol \o "USDT" = r.pair

\* C10: every row the normalizer emits has price > 0 and volume > 0, a pair
\* ending in USDT, a base outside the stable/fiat set and no leveraged-token
\* suffix; the rows are made from tickers of the snapshot in the snapshot's
\* order, so a ticker whose price or volume is 0, negative or unparsable is
\* never among them.
C10_Normalizer ==
    TopBuilt =>
        LET data == inp.fetched[1]
            rows == out.rows_all
        IN  /\ \A i \in 1..Len(rows) :
                /\ rows[i].price > 0 /\ rows[i].vol24_usd > 0
                /\ EndsWith(rows[i].pair, "USDT")
                /\ rows[i].symbol \notin
                     {"", "USDT", "USDC", "BUSD", "TUSD", "FDUSD", "DAI", "EUR", "TRY", "BRL",
                      "GBP", "AUD", "RUB", "UAH"}
                /\ \A suf \in {"UPUSDT", "DOWNUSDT", "BULLUSDT", "BEARUSDT"} :
                     ~EndsWith(rows[i].pair, suf)
            /\ \E f \in [1..Len(rows) -> 1..Len(data)] :
                /\ \A i \in 1..Len(rows) : RowFrom(rows[i], data[f[i]])
                /\ \A i, j \in 1..Len(rows) : i < j => f[i] < f[j]

C10_Witness ==
    /\ TopBuilt /\ Len(inp.fetched[1]) = 2 /\ Len(out.rows_all) = 1
    /\ inp.fetched[1][1].symbol = "BTCUSDT" /\ inp.fetched[1][1].quoteVolume = Some(0)
    /\ inp.fetched[1][2].symbol = "ETHUSDT" /\ out.rows_all[1].symbol = "ETH"

\* C9: every trade plan of an enriched pick has entry equal to the pick's
\* price, stop, tp1 and tp2 equal to 0.97, 1.04 and 1.07 times the entry
\* rounded to 8 decimals, and stop < entry < tp1 < tp2.
C9_TradePlan ==
    TopBuilt =>
        \A i \in 1..Len(out.ret.top_picks) :
            LET p == out.ret.top_picks[i]
                Near(x, pct) == 100 * x - pct * p.plan.entry \in (0 - 50)..50
            IN  /\ p.plan.entry = p.price
                /\ Near(p.plan.stop, 97) /\ Near(p.plan.tp1, 104) /\ Near(p.plan.tp2, 107)
                /\ p.plan.stop < p.plan.entry
                /\ p.plan.entry < p.plan.tp1
                /\ p.plan.tp1 < p.plan.tp2

C9_Witness ==
    /\ TopBuilt /\ Len(out.ret.top_picks) = 1
    /\ inp.fetched[1][1].lastPrice = Some(100000)
    /\ out.ret.top_picks[1].plan = [entry |-> 1000, stop |-> 970, tp1 |-> 1040, tp2 |-> 1070]

\* C4: a ranked symbol whose own candle fetches all succeed is returned in
\* top_picks, whichever other ranked symbol's fetch fails.
C4_PerSymbolIsolation ==
    TopBuilt =>
        \A i \in 1..Len(out.picks) :
            (\A k \in 1..3 : inp.klines[<<out.picks[i].symbol, Intervals[k]>>] # None)
                => \E j \in 1..Len(out.ret.top_picks) :
                        out.ret.top_picks[j].symbol = out.picks[i].symbol

\* a build that did not fall back to the degraded result
TopOk == TopBuilt /\ out.ret.warnings = <<>>

\* the symbols of a list of picks, in order
SymbolsOf(picks) == [i \in 1..Len(picks) |-> picks[i].symbol]

\* the tickers of the snapshot a ranked pick can have come from
TickersOf(p) == {i \in 1..Len(inp.fetched[1]) : inp.fetched[1][i].symbol = p.pair}

\* C11 as stated: a symbol is ranked only if its volume is at least
\* VOL_MIN_USD and its 24h change itself lies in [PCT_MIN, PCT_MAX].
C11_AsStated ==
    TopBuilt =>
        \A i \in 1..Len(out.picks) : \E j \in TickersOf(out.picks[i]) :
            LET t == inp.fetched[1][j]
            IN  /\ safe_float(t.quoteVolume) >= VOL_MIN_USD
                /\ safe_float(t.priceChangePercent) >= PCT_MIN
                /\ safe_float(t.priceChangePercent) <= PCT_MAX

\* C11: a symbol is ranked only if its 24h quote volume is at least
\* VOL_MIN_USD and the absolute value of its 24h change lies in
\* [PCT_MIN, PCT_MAX]; of A (vol $200M, +5%), B (vol $10M, +5%) and
\* C (vol $200M, +40%) only A is ranked.
C11_FilterBand ==
    TopBuilt =>
        /\ \A i \in 1..Len(out.picks) : \E j \in TickersOf(out.picks[i]) :
                LET t == inp.fetched[1][j]
                IN  /\ safe_float(t.quoteVolume) >= VOL_MIN_USD
                    /\ Abs(safe_float(t.priceChangePercent)) >= PCT_MIN
                    /\ Abs(safe_float(t.priceChangePercent)) <= PCT_MAX
        /\ inp.fetched = Some(ScenarioABC) =>
                /\ SymbolsOf(out.picks) = <<"A">>
                /\ SymbolsOf(out.ret.top_picks) = <<"A">>

C11_Witness ==
    /\ TopOk /\ Len(out.picks) = 1 /\ Len(inp.fetched[1]) = 1
    /\ inp.fetched[1][1].priceChangePercent = Some(0 - PCT_MAX)
    /\ inp.fetched[1][1].quoteVolume = Some(VOL_MIN_USD)
    /\ out.picks[1].symbol = "A"

\* a row of rows_all that the filter of lines 336-342 keeps
FilteredIn(r) ==
    /\ r.vol24_usd >= VOL_MIN_USD
    /\ Abs(r.chg24_pct) >= PCT_MIN /\ Abs(r.chg24_pct) <= PCT_MAX
    /\ r.price >= PRICE_FLOOR

\* C12: in every successful result top_picks holds at most TOP_N entries in
\* order of non-increasing score, a filtered-in row that was left out does
\* not score higher than an included one, and the enriched list is the
\* ranked list in the same order, no candidate dropped.
C12_RankedOrder ==
    TopOk =>
        LET top == out.ret.top_picks
            rows == out.rows_all
            kept == {i \in 1..Len(rows) : FilteredIn(rows[i])}
        IN  /\ Len(top) <= TOP_N
            /\ Len(top) = IF Cardinality(kept) < TOP_N THEN Cardinality(kept) ELSE TOP_N
            /\ \A i, j \in 1..Len(top) : i < j => top[i].score >= top[j].score
            /\ \A i \in kept :
                    (\A k \in 1..Len(top) : top[k].symbol # rows[i].symbol)
                        => \A k \in 1..Len(top) :
                              score_coin(rows[i].chg24_pct, rows[i].vol24_usd,
                                         out.ret.market_gate, inp.up) <= top[k].score
            /\ SymbolsOf(top) = SymbolsOf(out.picks)
            /\ \A k \in 1..Len(top) : top[k].score = out.picks[k].score

C12_Witness ==
    /\ TopOk /\ Len(out.ret.top_picks) = TOP_N
    /\ Cardinality({i \in 1..Len(out.rows_all) : FilteredIn(out.rows_all[i])}) > TOP_N
    /\ out.ret.top_picks[1].score > out.ret.top_picks[TOP_N].score
    /\ out.ret.top_picks[1].symbol # out.rows_all[1].symbol

\* the 24h change of the row of an anchor symbol, 0 when it is absent
AnchorPct(rows, sym) ==
    IF \E i \in 1..Len(rows) : rows[i].symbol = sym
    THEN rows[CHOOSE i \in 1..Len(rows) : rows[i].symbol = sym].chg24_pct
    ELSE 0

\* the rows among the MEDIAN_ROWS largest by volume
TopByVolume(rows) ==
    {i \in 1..Len(rows) :
        Cardinality({j \in 1..Len(rows) : rows[j].vol24_usd > rows[i].vol24_usd}) < MEDIAN_ROWS}

\* the k-th smallest 24h change among the rows at I
KthPct(rows, I, k) ==
    CHOOSE x \in {rows[i].chg24_pct : i \in I} :
        /\ Cardinality({i \in I : rows[i].chg24_pct < x}) < k
        /\ Cardinality({i \in I : rows[i].chg24_pct <= x}) >= k

\* twice the median of the 24h changes of the rows at I, 0 for no row
MedianPctX2(rows, I) ==
    LET n == Cardinality(I)
    IN  IF n = 0 THEN 0
        ELSE IF n % 2 = 1 THEN 2 * KthPct(rows, I, (n + 1) \div 2)
        ELSE KthPct(rows, I, n \div 2) + KthPct(rows, I, n \div 2 + 1)

\* ten times 0.5 * BTC + 0.3 * ETH + 0.2 * median, in thousandths of a percent
IndexX10(rows) ==
    5 * AnchorPct(rows, "BTC") + 3 * AnchorPct(rows, "ETH")
        + MedianPctX2(rows, TopByVolume(rows))

\* market mode and gate that C13 states for the index x (times ten)
ModeTable(x) ==
    IF x > 12000 THEN <<"STRONG BULLISH", "BULLISH">>
    ELSE IF x > 4000 THEN <<"BULLISH", "BULLISH">>
    ELSE IF x < 0 - 12000 THEN <<"PANIC", "PANIC">>
    ELSE IF x < 0 - 4000 THEN <<"BEARISH", "BEARISH">>
    ELSE <<"NEUTRAL", "NEUTRAL">>

\* C13: the index is 0.5 * BTC + 0.3 * ETH + 0.2 * median of the 24h changes
\* of the 20 rows of largest volume (all rows when there are fewer, an absent
\* anchor counting 0); above 1.2 it gives STRONG BULLISH/BULLISH, above 0.4
\* BULLISH/BULLISH, below -1.2 PANIC/PANIC, below -0.4 BEARISH/BEARISH, else
\* NEUTRAL/NEUTRAL, so that an index of exactly 1.2, 0.4, -0.4 or -1.2 falls
\* into the milder class.
C13_MarketMode ==
    TopOk =>
        LET x == IndexX10(out.rows_all)
        IN  /\ <<out.ret.market_mode, out.ret.market_gate>> = ModeTable(x)
            /\ 100 * out.ret.index - x \in (0 - 50)..50
            /\ x = IDX_STRONG => out.ret.market_mode = "BULLISH"
            /\ x = IDX_MILD => out.ret.market_mode = "NEUTRAL"
            /\ x = 0 - IDX_MILD => out.ret.market_mode = "NEUTRAL"
            /\ x = 0 - IDX_STRONG => out.ret.market_mode = "BEARISH"

C13_Witness ==
    /\ TopOk /\ IndexX10(out.rows_all) = 0 - IDX_STRONG
    /\ out.ret.market_mode = "BEARISH" /\ out.ret.btc_24h = 0 - 120

\* a snapshot of more than MEDIAN_ROWS rows whose median over all rows differs
C13_MoreThanTwenty ==
    /\ TopOk /\ Len(out.rows_all) = MEDIAN_ROWS + 2
    /\ IndexX10(out.rows_all) # MedianPctX2(out.rows_all, 1..Len(out.rows_all))
    /\ out.ret.market_mode = "STRONG BULLISH"

----------------------------------------------------------------------------
(* score_coin on its own, and inside get_crypto_top                        *)

MaxPct == 100000
MaxLog == 11000000

\* changes around the clamp band [-18, 22], the filter band and the 8 of
\* line 196
ScorePcts ==
    {0 - MaxPct, 0 - PCT_MAX, 0 - 18001, 0 - 18000, 0 - 17999, 0 - 5000, 0 - PCT_MIN, 0,
     PCT_MIN, 5000, 8000, 8001, 15000, 21999, 22000, 22001, PCT_MAX, MaxPct}

\* log10 of the volume, in 1e-6, around the band [7.5, 10] and at VOL_MIN_USD
ScoreLogs ==
    {0, 7000000, 7499999, 7500000, 7500001, Log10Micro(VOL_MIN_USD), 8301030, 9999999,
     10000000, 10000001, MaxLog}

\* spread hints around the band [0.001, 0.010]
ScoreSpreads == {0, 1, SPREAD_HINT, 9, 10, 20}

ScoreInputs ==
    [op : {"score_coin"}, p24 : ScorePcts, lg : ScoreLogs, spread_hint : ScoreSpreads,
     gate : Gates, up : BOOLEAN]

InitScore ==
    /\ ColdStart
    /\ inp \in ScoreInputs
             \cup [op : {"get_crypto_top"},
                   fetched : {Some(<<Ticker("AUSDT", Some(150000), Some(pct), Some(vol))>>) :
                                 pct \in RankPcts, vol \in RankVols},
                   klines : {RankKlines}, up : BOOLEAN]
    /\ out = None

CallScore ==
    /\ inp.op = "score_coin" /\ out = None
    /\ out' = [score |-> score_of_log(inp.p24, inp.lg, inp.spread_hint, inp.gate, inp.up)]
    /\ UNCHANGED <<state, inp, aux>>

NextScore == CallScore \/ CallTop

SpecScore == InitScore /\ [][NextScore]_vars

ScoreDone == inp.op = "score_coin" /\ out # None

\* C14: whatever the change, the volume, the spread hint and the gate,
\* score_coin returns a whole number of tenths between 0 and 100, and so is
\* the score stored on every ranked and every returned candidate.
C14_ScoreBounds ==
    /\ ScoreDone => out.score \in 0..1000
    /\ TopBuilt =>
            /\ \A i \in 1..Len(out.picks) : out.picks[i].score \in 0..1000
            /\ \A i \in 1..Len(out.ret.top_picks) : out.ret.top_picks[i].score \in 0..1000

C14_Witness ==
    /\ ScoreDone /\ inp.p24 = MaxPct /\ inp.lg = MaxLog /\ inp.spread_hint = 0
    /\ inp.gate = "NEUTRAL" /\ out.score = 1000

\* a scored input that the filter of lines 336-340 lets through
ScoredCandidate ==
    /\ ScoreDone
    /\ inp.lg >= Log10Micro(VOL_MIN_USD)
    /\ Abs(inp.p24) >= PCT_MIN /\ Abs(inp.p24) <= PCT_MAX

\* C15: a candidate scores strictly lower under PANIC or BEARISH than the
\* same change, volume and spread hint score under NEUTRAL: lower by 6.0, by
\* 10.0 when the change is above 8, and never below 0; a change of 15 scores
\* strictly lower under PANIC than under NEUTRAL.
C15_GatePenalty ==
    (ScoredCandidate /\ inp.gate \in {"PANIC", "BEARISH"}) =>
        LET neutral == score_of_log(inp.p24, inp.lg, inp.spread_hint, "NEUTRAL", inp.up)
            penalty == IF inp.p24 > 8000 THEN 100 ELSE 60
        IN  /\ out.score < neutral
            /\ out.score = IF neutral > penalty THEN neutral - penalty ELSE 0

C15_Witness ==
    /\ ScoredCandidate /\ inp.gate = "PANIC" /\ inp.p24 = 15000
    /\ inp.lg = Log10Micro(VOL_MIN_USD) /\ inp.spread_hint = SPREAD_HINT
    /\ out.score + 100 = score_of_log(inp.p24, inp.lg, inp.spread_hint, "NEUTRAL", inp.up)

----------------------------------------------------------------------------
(* Single-call specification of whale_v2 on a cold cache                   *)

MaxTape == 2

TwoPicks ==
    <<Ticker("ETHUSDT", Some(150000), Some(5000), Some(100000000)),
      Ticker("BTCUSDT", Some(150000), Some(5000), Some(200000000))>>

TapeTrades ==
    {Trade(pq[1], pq[2], m, T) :
        pq \in {<<Some(100), Some(10)>>, <<Some(100), Some(10000)>>, <<Some(749999), Some(1)>>,
                <<Some(750000), Some(1)>>, <<None, Some(5)>>},
        m \in BOOLEAN, T \in {Some(1234567), None}}

WhaleSell == Trade(Some(100), Some(10000), TRUE, Some(1234567))

WhaleTapes ==
    {[pair \in {"BTCUSDT", "ETHUSDT"} |-> IF pair = "BTCUSDT" THEN b ELSE e] :
        b \in {None} \cup {Some(t) : t \in SeqsUpTo(TapeTrades, MaxTape)},
        e \in {None, Some(<<>>), Some(<<WhaleSell>>)}}

InitWhale ==
    /\ ColdStart
    /\ inp \in [op : {"whale_v2"}, fetched : {None, Some(TwoPicks)}, klines : {KlinesAll(K_FULL)},
                tapes : WhaleTapes, up : {FALSE}]
    /\ out = None

CallWhale ==
    /\ inp.op = "whale_v2" /\ out = None
    /\ out' = whale_v2(cache_whales, cache_top, cache_klines, now, inp.fetched, inp.klines,
                       inp.tapes, inp.up)
    /\ cache_whales' = out'.cache_whales
    /\ cache_top' = out'.cache_top
    /\ cache_klines' = out'.ck
    /\ UNCHANGED <<now, cache_scalp, store, inp, aux, HISTORY, last_poll_ts>>

NextWhale == CallWhale

SpecWhale == InitWhale /\ [][NextWhale]_vars

WhaleDone == inp.op = "whale_v2" /\ out # None

IsErrorRecord(r) == DOMAIN r = {"symbol", "pair", "error"}
IsNumericRecord(r) ==
    DOMAIN r = {"symbol", "pair", "buy_usd", "sell_usd", "pressure_idx", "whale_hits"}

\* What the tape of a scanned pick makes fail: a fetch that raises, or a
\* whale trade whose time does not parse.
TapeFails(pair) ==
    \/ inp.tapes[pair] = None
    \/ \E i \in 1..Len(inp.tapes[pair][1]) :
          LET tr == inp.tapes[pair][1][i]
          IN  /\ tr.T = None /\ tr.p # None /\ tr.q # None
              /\ tr.p[1] * tr.q[1] >= 750000

\* C5: whale_v2 returns without raising, with exactly one pressure record for
\* each scanned pick: a record with an error marker and no numeric field when
\* that pick's tape fetch or scan fails, a numeric record otherwise, whatever
\* happens to the other picks.
C5_PerSymbolPressure ==
    WhaleDone =>
        /\ ~out.raised
        /\ Len(out.ret.pressure) = Len(out.picks)
        /\ \A i \in 1..Len(out.picks) :
            LET mine == {j \in 1..Len(out.ret.pressure) :
                            out.ret.pressure[j].pair = out.picks[i].pair}
            IN  /\ Cardinality(mine) = 1
                /\ \A j \in mine :
                    IF TapeFails(out.picks[i].pair) THEN IsErrorRecord(out.ret.pressure[j])
                    ELSE IsNumericRecord(out.ret.pressure[j])

C5_Witness ==
    /\ WhaleDone /\ Len(out.picks) = 2
    /\ inp.tapes["BTCUSDT"] = None /\ inp.tapes["ETHUSDT"] = Some(<<WhaleSell>>)
    /\ \E j, k \in 1..2 :
        /\ out.ret.pressure[j] = [symbol |-> "BTC", pair |-> "BTCUSDT", error |-> E_FETCH]
        /\ out.ret.pressure[k].pair = "ETHUSDT" /\ out.ret.pressure[k].whale_hits = 1

\* price * qty of a trade of the tape, a field that does not parse counting 0
NotionalOf(tr) == safe_float(tr.p) * safe_float(tr.q)

\* the sum of the notionals of the trades at K
RECURSIVE SumNotional(_, _)
SumNotional(trades, K) ==
    IF K = {} THEN 0
    ELSE LET k == CHOOSE x \in K : TRUE
         IN  NotionalOf(trades[k]) + SumNotional(trades, K \ {k})

\* What C16 says of the tape of one scanned pick: its events are its trades
\* of notional >= 750000, one event each, SELL for a maker flag that is true
\* and BUY otherwise; its record counts them in whale_hits and adds every
\* trade to the total of its side.
WhaleEventsOk(pair) ==
    LET trades == inp.tapes[pair][1]
        big == {k \in 1..Len(trades) : NotionalOf(trades[k]) >= 750000}
        ev == {j \in 1..Len(out.ret.events) : out.ret.events[j].pair = pair}
        SideOf(tr) == IF tr.m THEN "SELL" ELSE "BUY"
    IN  /\ \A side \in {"SELL", "BUY"}, usd \in {NotionalOf(trades[k]) : k \in big} :
              Cardinality({j \in ev : out.ret.events[j].side = side
                                       /\ out.ret.events[j].usd = usd})
                  = Cardinality({k \in big : SideOf(trades[k]) = side
                                             /\ NotionalOf(trades[k]) = usd})
        /\ Cardinality(ev) = Cardinality(big)
        /\ \E j \in 1..Len(out.ret.pressure) :
              LET r == out.ret.pressure[j]
              IN  /\ r.pair = pair /\ IsNumericRecord(r)
                  /\ r.whale_hits = Cardinality(big)
                  /\ r.sell_usd = SumNotional(trades, {k \in 1..Len(trades) : trades[k].m})
                  /\ r.buy_usd = SumNotional(trades, {k \in 1..Len(trades) : ~trades[k].m})
        /\ trades = <<WhaleSell>> =>
              \E j \in ev : /\ ev = {j} /\ out.ret.events[j].side = "SELL"
                            /\ out.ret.events[j].usd = 1000000

\* the picks whose tape was fetched
TapeFetched == {i \in 1..Len(out.picks) : inp.tapes[out.picks[i].pair] # None}

\* C16: a trade produces a whale event exactly when price * qty is at least
\* the threshold, equality included; the event is SELL when the maker flag is
\* true and BUY when it is false, the side the trade's notional is added to;
\* whale_hits is the number of such trades; one trade of price 100, qty 10000
\* and maker flag true gives exactly one SELL event of notional 1000000.
C16_WhaleEvents ==
    WhaleDone => \A i \in TapeFetched : WhaleEventsOk(out.picks[i].pair)

\* the same on the tapes whose whale trades all carry a time that converts
C16_WhenTimesConvert ==
    WhaleDone =>
        \A i \in TapeFetched :
            ~TapeFails(out.picks[i].pair) => WhaleEventsOk(out.picks[i].pair)

\* a tape with a trade on the threshold and one just below it
C16_ThresholdReached ==
    /\ WhaleDone /\ inp.tapes["BTCUSDT"] # None /\ Len(inp.tapes["BTCUSDT"][1]) = 2
    /\ NotionalOf(inp.tapes["BTCUSDT"][1][1]) = WHALE_THRESHOLD_USD
    /\ NotionalOf(inp.tapes["BTCUSDT"][1][2]) = WHALE_THRESHOLD_USD - 1
    /\ ~inp.tapes["BTCUSDT"][1][1].m
    /\ Cardinality({j \in 1..Len(out.ret.events) :
                        out.ret.events[j].pair = "BTCUSDT" /\ out.ret.events[j].side = "BUY"}) = 1

\* C17: every pressure index lies in [-100, 100]; it is
\* (buy - sell) / (buy + sell) * 100, rounded to one decimal, when
\* buy + sell > 0, and 0 when buy + sell = 0, the empty tape included.
C17_PressureIndex ==
    WhaleDone =>
        \A j \in 1..Len(out.ret.pressure) :
            LET r == out.ret.pressure[j]
                trades == inp.tapes[r.pair][1]
                buy == SumNotional(trades, {k \in 1..Len(trades) : ~trades[k].m})
                sell == SumNotional(trades, {k \in 1..Len(trades) : trades[k].m})
            IN  IsNumericRecord(r) =>
                    /\ r.pressure_idx >= 0 - 1000 /\ r.pressure_idx <= 1000
                    /\ buy + sell > 0 => r.pressure_idx = RoundPercent(buy - sell, buy + sell, inp.up)
                    /\ buy + sell = 0 => r.pressure_idx = 0
                    /\ (buy > 0 /\ sell = 0) => r.pressure_idx = 1000
                    /\ (sell > 0 /\ buy = 0) => r.pressure_idx = 0 - 1000
                    /\ (buy = sell) => r.pressure_idx = 0

C17_Witness ==
    /\ WhaleDone
    /\ \E j \in 1..Len(out.ret.pressure) :
          LET r == out.ret.pressure[j]
          IN  /\ IsNumericRecord(r) /\ r.buy_usd = 1000000 /\ r.sell_usd = 1000
              /\ r.pressure_idx = 998
    /\ \E j \in 1..Len(out.ret.pressure) :
          /\ IsNumericRecord(out.ret.pressure[j])
          /\ inp.tapes[out.ret.pressure[j].pair] = Some(<<>>)
          /\ out.ret.pressure[j].pressure_idx = 0

\* the events of a result that carry the pair
EventsOf(pair) == {j \in 1..Len(out.ret.events) : out.ret.events[j].pair = pair}

\* the tape of the pair was fetched and its scan stopped at a trade after
\* the first one
FailsPartWay(pair) ==
    /\ inp.tapes[pair] # None /\ TapeFails(pair)
    /\ \E i \in 2..Len(inp.tapes[pair][1]) : inp.tapes[pair][1][i].T = None

\* C24: every whale event of a whale_v2 result belongs to a symbol whose
\* pressure record in the same result is numeric, not an error marker, and
\* has whale_hits >= 1; a symbol whose tape scan failed part-way has no
\* event in the result.
C24_EventsHaveRecords ==
    WhaleDone =>
        /\ \A j \in 1..Len(out.ret.events) :
              \E k \in 1..Len(out.ret.pressure) :
                 /\ out.ret.pressure[k].symbol = out.ret.events[j].symbol
                 /\ IsNumericRecord(out.ret.pressure[k])
                 /\ out.ret.pressure[k].whale_hits >= 1
        /\ \A i \in 1..Len(out.picks) :
              TapeFails(out.picks[i].pair) => EventsOf(out.picks[i].pair) = {}

\* the same for the results in which no scan stopped after its first trade
C24_UnlessPartWay ==
    (WhaleDone /\ \A i \in 1..Len(out.picks) : ~FailsPartWay(out.picks[i].pair)) =>
        /\ \A j \in 1..Len(out.ret.events) :
              \E k \in 1..Len(out.ret.pressure) :
                 /\ out.ret.pressure[k].symbol = out.ret.events[j].symbol
                 /\ IsNumericRecord(out.ret.pressure[k])
                 /\ out.ret.pressure[k].whale_hits >= 1
        /\ \A i \in 1..Len(out.picks) :
              TapeFails(out.picks[i].pair) => EventsOf(out.picks[i].pair) = {}

\* an event of BTC stands next to the error record of BTC
C24_EventOfFailedScan ==
    /\ WhaleDone /\ EventsOf("BTCUSDT") # {}
    /\ \E k \in 1..Len(out.ret.pressure) :
          out.ret.pressure[k].pair = "BTCUSDT" /\ IsErrorRecord(out.ret.pressure[k])

----------------------------------------------------------------------------
(* Single-call specification of scalp_engine on cold caches                *)

\* candles of a falling series
K_DOWN == Candles(Some(150049), Some(140000), Some(148051), Some(55004), Some(1849))

\* 1h candles: the RSI missing, ordinary, at the ceiling 75 and just above
ScalpRsis == {None, Some(55004), Some(75000), Some(75010)}
\* 4h candles: the ATR missing, rounding to 0, and on both sides of the
\* bounds of the two clamps for a price of 0.000015 or 0.00001
ScalpAtrs == {None, Some(49), Some(500), Some(1000), Some(1200), Some(1700), Some(2000),
              Some(2500), Some(2600)}

ScalpCandles(k, rsi, atr) == Candles(k.last, k.ema20, k.ema50, rsi, atr)

ScalpKlines ==
    {[key \in KlineKeys |->
        IF key = <<"BTC", "1h">> THEN Some(ScalpCandles(k1, rsi, K_FULL.atr14))
        ELSE IF key = <<"BTC", "4h">> THEN Some(ScalpCandles(k4, K_FULL.rsi14, atr))
        ELSE IF key = <<"ETH", "4h">> THEN Some(ScalpCandles(K_FULL, K_FULL.rsi14, eatr))
        ELSE Some(K_FULL)] :
        k1 \in {K_FULL, K_DOWN}, k4 \in {K_FULL, K_DOWN}, rsi \in ScalpRsis, atr \in ScalpAtrs,
        eatr \in {Some(500), Some(1849)}}
    \cup {KlinesFailAt(<<"ETH", "4h">>, K_FULL)}

\* BTC and ETH rising, falling, and pulling apart; BTC at the price floor
ScalpSnapshots ==
    {<<Ticker("ETHUSDT", Some(150000), Some(e), Some(100000000)),
       Ticker("BTCUSDT", Some(p), Some(b), Some(200000000))>> :
        e \in {5000, 0 - 5000}, b \in {5000, 0 - 5000, 0 - 2000}, p \in {150000, PRICE_FLOOR}}

InitScalp ==
    /\ ColdStart
    /\ inp \in [op : {"scalp_engine"}, fetched : {None} \cup {Some(d) : d \in ScalpSnapshots},
                 klines : ScalpKlines, up : BOOLEAN]
    /\ out = None

CallScalp ==
    /\ inp.op = "scalp_engine" /\ out = None
    /\ out' = scalp_engine(cache_scalp, cache_top, cache_klines, now, inp.fetched, inp.klines,
                           inp.up)
    /\ cache_scalp' = out'.cache_scalp
    /\ cache_top' = out'.cache_top
    /\ cache_klines' = out'.ck
    /\ UNCHANGED <<now, cache_whales, store, inp, aux, HISTORY, last_poll_ts>>

NextScalp == CallScalp

SpecScalp == InitScalp /\ [][NextScalp]_vars

\* the call was made, and the result of its get_crypto_top() call
ScalpDone == inp.op = "scalp_engine" /\ out # None
ScalpTop == out.top[1].ret
ScalpList == out.ret.opportunities

\* the skip rules as stated, on the fields of a top pick
NoSkipRule(p, gate) ==
    /\ gate # "PANIC"
    /\ p.ai_signal # "AVOID"
    /\ p.indicators.h4.atr # None /\ Val(p.indicators.h4.atr) > 0
    /\ p.price > 0
    /\ (p.indicators.h1.rsi = None \/ Val(p.indicators.h1.rsi) <= SCALP_RSI_MAX)

\* C21: after a scalp_engine build the symbols of the scalp list are the
\* symbols of the top picks to which no skip rule applies: the list is empty
\* when the gate is PANIC, no opportunity has verdict AVOID, a missing or
\* non-positive 4h ATR, a non-positive price or a 1h RSI above 75, a pick
\* without a 1h RSI is not skipped for that, and every opportunity is a top pick.
C21_SkipRules ==
    ScalpDone =>
        LET picks == ScalpTop.top_picks
            gate == ScalpTop.market_gate
        IN  /\ out.ret.gate = gate
            /\ {ScalpList[i].symbol : i \in 1..Len(ScalpList)}
                   = {picks[j].symbol : j \in {k \in 1..Len(picks) : NoSkipRule(picks[k], gate)}}
            /\ Len(ScalpList) <= Len(picks)
            /\ gate = "PANIC" => ScalpList = <<>>
            /\ \A i \in 1..Len(ScalpList) :
                  \E j \in 1..Len(picks) :
                     /\ picks[j].symbol = ScalpList[i].symbol
                     /\ ScalpList[i].ai_signal = picks[j].ai_signal
                     /\ ScalpList[i].ai_signal # "AVOID"
                     /\ ScalpList[i].entry = picks[j].price /\ ScalpList[i].entry > 0
                     /\ ScalpList[i].rsi_1h = picks[j].indicators.h1.rsi
                     /\ Truthy(picks[j].indicators.h4.atr)

\* a pick without a 1h RSI is in the list next to one that was skipped for
\* its RSI of 75.01, under a gate that is not PANIC
C21_Witness ==
    /\ ScalpDone /\ ScalpTop.market_gate # "PANIC"
    /\ Len(ScalpTop.top_picks) = 2 /\ Len(ScalpList) = 1
    /\ \E j \in 1..2 : ScalpTop.top_picks[j].indicators.h1.rsi = Some(SCALP_RSI_MAX + 1)
    /\ ScalpList[1].symbol = "ETH"

\* a pick without a 1h RSI is kept
C21_MissingRsiKept ==
    /\ ScalpDone
    /\ \E i \in 1..Len(ScalpList) : ScalpList[i].rsi_1h = None

\* the gate is PANIC, the top picks are not empty and the list is
C21_PanicEmpty ==
    /\ ScalpDone /\ ScalpTop.market_gate = "PANIC" /\ ScalpTop.top_picks # <<>>
    /\ ScalpList = <<>>

\* a fraction as a percentage in hundredths, when that is a whole number
PctOf(x) == (x.num * 10000) \div x.den

\* C22: every scalp opportunity has a take fraction in [0.02, 0.03] and a
\* stop fraction in [0.008, 0.02] whatever the ATR is, so stop < entry < take
\* and the reward:risk ratio lies between 1.0 and 3.75; the list is sorted
\* by non-increasing (rr, score) and holds at most 12 entries.
C22_Bands ==
    ScalpDone =>
        /\ Len(ScalpList) <= SCALP_MAX
        /\ \A i \in 1..Len(ScalpList) :
              LET o == ScalpList[i]
              IN  /\ PctOf(SCALP_TARGET_MIN) <= o.tp_pct /\ o.tp_pct <= PctOf(SCALP_TARGET_MAX)
                  /\ PctOf(SCALP_STOP_MIN) <= o.sl_pct /\ o.sl_pct <= PctOf(SCALP_STOP_MAX)
                  /\ o.stop < o.entry /\ o.entry < o.take
                  /\ 2 * o.take * 100 >= 2 * o.entry * 102 - 100
                  /\ 2 * o.take * 100 <= 2 * o.entry * 103 + 100
                  /\ 2 * o.stop * 1000 >= 2 * o.entry * 980 - 1000
                  /\ 2 * o.stop * 1000 <= 2 * o.entry * 992 + 1000
                  /\ 100 <= o.rr /\ o.rr <= 375
        /\ \A i \in 1..(Len(ScalpList) - 1) :
              \/ ScalpList[i].rr > ScalpList[i + 1].rr
              \/ /\ ScalpList[i].rr = ScalpList[i + 1].rr
                 /\ ScalpList[i].score >= ScalpList[i + 1].score

\* both clamps act at both ends, and the sort puts the better ratio in
\* front of the better score
C22_Witness ==
    /\ ScalpDone /\ Len(ScalpList) = 2
    /\ ScalpList[1].tp_pct = PctOf(SCALP_TARGET_MIN) /\ ScalpList[1].sl_pct = PctOf(SCALP_STOP_MIN)
    /\ ScalpList[2].tp_pct = PctOf(SCALP_TARGET_MAX) /\ ScalpList[2].sl_pct = PctOf(SCALP_STOP_MAX)
    /\ ScalpList[1].rr > ScalpList[2].rr /\ ScalpList[1].score < ScalpList[2].score

\* a take and a stop fraction strictly inside their bands
C22_Unclamped ==
    /\ ScalpDone
    /\ \E i \in 1..Len(ScalpList) :
          /\ PctOf(SCALP_TARGET_MIN) < ScalpList[i].tp_pct /\ ScalpList[i].tp_pct < PctOf(SCALP_TARGET_MAX)
          /\ PctOf(SCALP_STOP_MIN) < ScalpList[i].sl_pct /\ ScalpList[i].sl_pct < PctOf(SCALP_STOP_MAX)

----------------------------------------------------------------------------
(* TTLCache, lines 50-63                                                   *)

\* TTLCache.set, lines 62-63: one store of the whole entry
ttl_set(st, key, val, ttl, now_) == (key :> [ts |-> now_, ttl |-> ttl, val |-> val]) @@ st

\* TTLCache.get, lines 54-60: ret is <<val>> on a hit and None on a miss
ttl_get(st, key, now_) ==
    IF key \notin DOMAIN st THEN [raised |-> FALSE, hit |-> FALSE, ret |-> None]
    ELSE IF ~fresh(now_, st[key].ts, st[key].ttl)
    THEN [raised |-> FALSE, hit |-> FALSE, ret |-> None]
    ELSE [raised |-> FALSE, hit |-> TRUE, ret |-> Some(st[key].val)]

----------------------------------------------------------------------------
(* silver_update_state, lines 851-915                                      *)

\* lines 548-552
CACHE_TTL_PRICE == 25
CACHE_TTL_FX == 60
CACHE_TTL_NEWS == 600
HISTORY_MAX_POINTS == 480
POLL_MIN_SECONDS == 10
\* the ttl of CACHE.set at line 914
SNAPSHOT_TTL == 5

\* fetch_xagusd and fetch_usdtry, lines 569-630: the value CACHE holds, else
\* the one fetched, which is stored; an exception when no source delivers.
\* fetched is <<>> when every source fails, else <<value>>.
fetch_through(st, key, ttl, fetched, now_) ==
    LET cached == ttl_get(st, key, now_)
    IN  IF cached.hit THEN [raised |-> FALSE, val |-> cached.ret, store |-> st]
        ELSE IF fetched = None THEN [raised |-> TRUE, val |-> None, store |-> st]
        ELSE [raised |-> FALSE, val |-> fetched,
              store |-> ttl_set(st, key, fetched[1], ttl, now_)]

\* fetch_silver_headlines, lines 635-657: never raises, stores what it got
headlines_through(st, now_) ==
    IF ttl_get(st, "news_silver", now_).hit THEN st
    ELSE ttl_set(st, "news_silver", "news", CACHE_TTL_NEWS, now_)

\* lines 864-866: append, then keep the last HISTORY_MAX_POINTS points
history_append(h, point) ==
    LET a == Append(h, point)
    IN  IF Len(a) > HISTORY_MAX_POINTS
        THEN SubSeq(a, Len(a) - HISTORY_MAX_POINTS + 1, Len(a))
        ELSE a

\* line 854: the call is inside the minimum poll interval
throttled(force, last, t) == ~force /\ (t - last) < POLL_MIN_SECONDS

\* lines 864-915 once both prices are known: the point, the headlines, the
\* snapshot (of which the model keeps the time, the prices and the number of
\* points it was computed from) and its store for 5 seconds
silver_publish(h, st, t, xag_usd, usdtry) ==
    LET h2 == history_append(h, [t |-> t, xag_usd |-> xag_usd, usdtry |-> usdtry])
        snapshot == [ts |-> t, xag_usd |-> xag_usd, usdtry |-> usdtry, points |-> Len(h2)]
    IN  [raised |-> FALSE, ret |-> Some(snapshot), HISTORY |-> h2, last_poll_ts |-> t,
         store |-> ttl_set(headlines_through(st, t), "silver_snapshot", snapshot,
                           SNAPSHOT_TTL, t),
         polled |-> TRUE]

\* lines 859-862: the poll, which stops at the first price that cannot be had
silver_poll(h, x, f, t) ==
    IF x.raised \/ f.raised
    THEN [raised |-> TRUE, ret |-> None, HISTORY |-> h, last_poll_ts |-> t,
          store |-> f.store, polled |-> TRUE]
    ELSE silver_publish(h, f.store, t, x.val[1], f.val[1])

\* lines 860-861 in their order: fetch_usdtry is not called when
\* fetch_xagusd raised
silver_fetch(h, x, fx, t) ==
    silver_poll(h, x,
                IF x.raised THEN [raised |-> TRUE, val |-> None, store |-> x.store]
                ELSE fetch_through(x.store, "fx_usdtry", CACHE_TTL_FX, fx, t),
                t)

\* silver_update_state(force), lines 851-915, at time t; xag and fx are what
\* the price sources would deliver
silver_update_state(force, h, last, st, t, xag, fx) ==
    LET snap == ttl_get(st, "silver_snapshot", t)
    IN  IF throttled(force, last, t) /\ snap.hit
        THEN [raised |-> FALSE, ret |-> snap.ret, HISTORY |-> h, last_poll_ts |-> last,
              store |-> st, polled |-> FALSE]
        ELSE silver_fetch(h, fetch_through(st, "xag_usd", CACHE_TTL_PRICE, xag, t), fx, t)

----------------------------------------------------------------------------
(* Non-forced calls of silver_update_state while the clock runs            *)

MaxSilverTicks == 3
MaxSilverCalls == 3

\* one more call at time t from the state s, every price delivered
silver_after(s, t) ==
    silver_update_state(FALSE, s.HISTORY, s.last_poll_ts, s.store, t, Some(30), Some(40))

\* the state after the calls number a to b of a series made
\* POLL_MIN_SECONDS apart from BOOT_TIME on, from the state s after the
\* calls before a
RECURSIVE PollsFrom(_, _, _)
PollsFrom(s, a, b) ==
    IF a > b \/ s.last_poll_ts >= BOOT_TIME + POLL_MIN_SECONDS * b THEN s
    ELSE IF a = b THEN silver_after(s, BOOT_TIME + POLL_MIN_SECONDS * a)
    ELSE PollsFrom(PollsFrom(s, a, (a + b) \div 2), ((a + b) \div 2) + 1, b)

\* the state after n such calls since import
AfterPolls(n) == PollsFrom([HISTORY |-> <<>>, last_poll_ts |-> 0, store |-> <<>>], 1, n)

\* the polls already made when the model starts: none, or one less than fill HISTORY
WarmPolls == {0, HISTORY_MAX_POINTS - 1}

SilverDeltas == {SNAPSHOT_TTL, SNAPSHOT_TTL + 1, POLL_MIN_SECONDS}
SilverForces == {FALSE}
SilverXag == {None, Some(30)}
SilverFx == {Some(40)}

warm_start(s) ==
    /\ HISTORY = s.HISTORY
    /\ last_poll_ts = s.last_poll_ts
    /\ store = s.store

InitSilver ==
    /\ \E n \in WarmPolls :
          /\ now = BOOT_TIME + POLL_MIN_SECONDS * (n + 1)
          /\ warm_start(AfterPolls(n))
    /\ cache_top = [ts |-> 0, data |-> None]
    /\ cache_klines = <<>>
    /\ cache_scalp = [ts |-> 0, data |-> None]
    /\ cache_whales = [ts |-> 0, data |-> None]
    /\ ticks = 0 /\ calls = 0
    /\ th = [t \in Threads |-> Idle]
    /\ wr = ByImport
    /\ used = NothingUsed
    /\ inp = [op |-> "none"]
    /\ out = None

\* the clock of now_ts(), line 15
SilverTick ==
    /\ ticks < MaxSilverTicks
    /\ \E d \in SilverDeltas : now' = now + d
    /\ ticks' = ticks + 1
    /\ UNCHANGED <<cache_top, cache_klines, cache_scalp, cache_whales, store, inp, out,
                   calls, th, wr, HISTORY, last_poll_ts, used>>

\* silver_update_state(force=False), lines 851-915
SilverUpdateState ==
    /\ calls < MaxSilverCalls
    /\ \E force \in SilverForces, xag \in SilverXag, fx \in SilverFx :
          /\ inp' = [op |-> "silver_update_state", force |-> force, xag |-> xag, fx |-> fx]
          /\ out' = silver_update_state(force, HISTORY, last_poll_ts, store, now, xag, fx)
    /\ HISTORY' = out'.HISTORY
    /\ last_poll_ts' = out'.last_poll_ts
    /\ store' = out'.store
    /\ calls' = calls + 1
    /\ UNCHANGED <<now, cache_top, cache_klines, cache_scalp, cache_whales, ticks, th, wr,
                   used>>

NextSilver ==
    \/ SilverTick
    \/ SilverUpdateState

SpecSilver == InitSilver /\ [][NextSilver]_vars

\* C26: after any sequence of silver_update_state(force=False) calls, no two
\* points of HISTORY were appended less than POLL_MIN_SECONDS seconds apart,
\* and HISTORY holds at most HISTORY_MAX_POINTS points.
C26_Throttled ==
    /\ Len(HISTORY) <= HISTORY_MAX_POINTS
    /\ \A i \in 1..(Len(HISTORY) - 1) : HISTORY[i + 1].t - HISTORY[i].t >= POLL_MIN_SECONDS

\* the bound on the number of points alone
C26_HistoryCapped == Len(HISTORY) <= HISTORY_MAX_POINTS

\* HISTORY is full and has lost its oldest point
C26_OldestDropped ==
    /\ Len(HISTORY) = HISTORY_MAX_POINTS
    /\ HISTORY[1].t > BOOT_TIME + POLL_MIN_SECONDS
    /\ inp.op = "silver_update_state" /\ out.polled /\ ~out.raised

\* a call made while the snapshot is still held appends nothing
C26_ServedFromSnapshot ==
    /\ inp.op = "silver_update_state" /\ ~out.polled
    /\ now - last_poll_ts = SNAPSHOT_TTL /\ out.ret[1].ts = last_poll_ts

\* two points that are SNAPSHOT_TTL + 1 seconds apart
C26_PolledTooSoon ==
    /\ inp.op = "silver_update_state" /\ ~inp.force /\ Len(HISTORY) >= 2
    /\ HISTORY[Len(HISTORY)].t - HISTORY[Len(HISTORY) - 1].t = SNAPSHOT_TTL + 1

----------------------------------------------------------------------------
(* The accessors called one after another while the clock runs             *)

MaxTicks == 1
MaxCalls == 2

\* seconds the clock may advance at once: each TTL of lines 73-76 and 914,
\* and one second more
Deltas ==
    {ttl + d : ttl \in {SNAPSHOT_TTL, WHALE_TTL, CRYPTO_CACHE_TTL, KLINES_TTL}, d \in {0, 1}}

\* what upstream delivers to a call: the 24h snapshot, the candles, the tapes
Snapshots == {None, Some(TwoPicks)}
KlineOutcomes == {KlinesAll(K_FULL), KlinesFailAt(<<"ETH", "4h">>, K_FULL)}
TapeOutcomes ==
    {[pair \in {"BTCUSDT", "ETHUSDT"} |-> IF pair = "ETHUSDT" THEN None ELSE Some(<<WhaleSell>>)]}

\* a snapshot fetch that fails leaves no candle to fetch: the candles'
\* outcome is then immaterial and kept to one
Upstream == {fk \in Snapshots \X KlineOutcomes : fk[1] = None => fk[2] = KlinesAll(K_FULL)}

\* a key of CACHE, lines 855 and 914
TtlKeys == {"silver_snapshot"}

InitSeq ==
    /\ ColdStart
    /\ inp = [op |-> "none"]
    /\ out = None

\* the clock of now_ts(), line 15
Tick ==
    /\ ticks < MaxTicks
    /\ \E d \in Deltas : now' = now + d
    /\ ticks' = ticks + 1
    /\ UNCHANGED <<cache_top, cache_klines, cache_scalp, cache_whales, store, inp, out,
                   calls, th, wr, HISTORY, last_poll_ts, used>>

\* get_crypto_top(), lines 394-405
GetCryptoTop ==
    /\ calls < MaxCalls
    /\ \E fk \in Upstream :
          /\ inp' = [op |-> "get_crypto_top", fetched |-> fk[1], klines |-> fk[2], up |-> FALSE]
          /\ out' = get_crypto_top(cache_top, cache_klines, now, fk[1], fk[2], FALSE)
    /\ cache_top' = out'.cache_top
    /\ cache_klines' = out'.ck
    /\ calls' = calls + 1
    /\ UNCHANGED <<now, cache_scalp, cache_whales, store, ticks, th, wr, HISTORY, last_poll_ts, used>>

\* scalp_engine(), lines 474-540
ScalpEngine ==
    /\ calls < MaxCalls
    /\ \E fk \in Upstream :
          /\ inp' = [op |-> "scalp_engine", fetched |-> fk[1], klines |-> fk[2], up |-> FALSE]
          /\ out' = scalp_engine(cache_scalp, cache_top, cache_klines, now, fk[1], fk[2], FALSE)
    /\ cache_scalp' = out'.cache_scalp
    /\ cache_top' = out'.cache_top
    /\ cache_klines' = out'.ck
    /\ calls' = calls + 1
    /\ UNCHANGED <<now, cache_whales, store, ticks, th, wr, HISTORY, last_poll_ts, used>>

\* whale_v2(), lines 407-472
WhaleV2 ==
    /\ calls < MaxCalls
    /\ \E fk \in Upstream, tp \in TapeOutcomes :
          /\ inp' = [op |-> "whale_v2", fetched |-> fk[1], klines |-> fk[2], tapes |-> tp,
                      up |-> FALSE]
          /\ out' = whale_v2(cache_whales, cache_top, cache_klines, now, fk[1], fk[2], tp, FALSE)
    /\ cache_whales' = out'.cache_whales
    /\ cache_top' = out'.cache_top
    /\ cache_klines' = out'.ck
    /\ calls' = calls + 1
    /\ UNCHANGED <<now, cache_scalp, store, ticks, th, wr, HISTORY, last_poll_ts, used>>

\* get_indicators(symbol, interval), lines 211-242
GetIndicators ==
    /\ calls < MaxCalls
    /\ \E key \in {<<"ETH", "4h">>}, k \in KlineOutcomes :
          /\ inp' = [op |-> "get_indicators", key |-> key, klines |-> k, up |-> FALSE]
          /\ out' = get_indicators(key[1], key[2], cache_klines, now, k, FALSE)
    /\ cache_klines' = out'.ck
    /\ calls' = calls + 1
    /\ UNCHANGED <<now, cache_top, cache_scalp, cache_whales, store, ticks, th, wr, HISTORY, last_poll_ts, used>>

\* CACHE.set(key, val, 5), lines 62-63 and 914
CacheSet ==
    /\ calls < MaxCalls
    /\ \E key \in TtlKeys :
          /\ inp' = [op |-> "TTLCache.set", key |-> key, val |-> "val", ttl |-> SNAPSHOT_TTL]
          /\ store' = ttl_set(store, key, "val", SNAPSHOT_TTL, now)
    /\ out' = [raised |-> FALSE, ret |-> None]
    /\ calls' = calls + 1
    /\ UNCHANGED <<now, cache_top, cache_klines, cache_scalp, cache_whales, ticks, th, wr,
                   HISTORY, last_poll_ts, used>>

\* CACHE.get(key), lines 54-60
CacheGet ==
    /\ calls < MaxCalls
    /\ \E key \in TtlKeys :
          /\ inp' = [op |-> "TTLCache.get", key |-> key]
          /\ out' = ttl_get(store, key, now)
    /\ calls' = calls + 1
    /\ UNCHANGED <<now, cache_top, cache_klines, cache_scalp, cache_whales, store, ticks, th, wr,
                   HISTORY, last_poll_ts, used>>

NextSeq ==
    \/ Tick
    \/ GetCryptoTop
    \/ ScalpEngine
    \/ WhaleV2
    \/ GetIndicators
    \/ CacheSet
    \/ CacheGet

SpecSeq == InitSeq /\ [][NextSeq]_vars

\* the indicator entry of key is set and not older than KLINES_TTL
KlineFresh(key) == key \in DOMAIN cache_klines /\ now - cache_klines[key].ts <= KLINES_TTL

\* the (symbol, interval) keys the enrichment of the picks looks up
PickKeys(picks) == {<<picks[i].symbol, Intervals[j]>> : i \in 1..Len(picks), j \in 1..3}

\* C2: a cache read is a hit iff the key has been set and now - set-time <= ttl
\* (age exactly ttl is still a hit), otherwise a miss.  For TTLCache.get, a
\* hit returns the value set and a miss returns None; for the indicator cache
\* a hit makes no candle fetch and returns the entry's data; for the
\* top-picks, scalp and whale caches a hit returns the cached value and a
\* miss recomputes.
C2_HitIffFresh ==
    [][calls' = calls + 1 =>
        /\ inp'.op = "TTLCache.get" =>
              /\ out'.hit <=> (/\ inp'.key \in DOMAIN store
                               /\ now - store[inp'.key].ts <= store[inp'.key].ttl)
              /\ out'.ret = IF out'.hit THEN Some(store[inp'.key].val) ELSE None
        /\ inp'.op = "get_indicators" =>
              /\ out'.fetches = 0 <=> KlineFresh(inp'.key)
              /\ out'.fetches = 0 => out'.data = cache_klines[inp'.key].data
        /\ inp'.op = "get_crypto_top" =>
              /\ out'.hit <=> (cache_top.data # None /\ now - cache_top.ts <= CRYPTO_CACHE_TTL)
              /\ out'.hit => out'.ret = cache_top.data[1] /\ out'.snapshot_fetches = 0
              /\ ~out'.hit => out'.snapshot_fetches = 1
              /\ (~out'.hit /\ out'.ret.warnings = <<>>) =>
                    out'.kline_fetches
                        = Cardinality({key \in PickKeys(out'.picks) : ~KlineFresh(key)})
        /\ inp'.op = "scalp_engine" =>
              /\ out'.hit <=> (cache_scalp.data # None /\ now - cache_scalp.ts <= SCALP_TTL)
              /\ out'.hit => out'.ret = cache_scalp.data[1] /\ out'.top = None
              /\ ~out'.hit => out'.top # None
        /\ inp'.op = "whale_v2" =>
              /\ out'.hit <=> (cache_whales.data # None /\ now - cache_whales.ts <= WHALE_TTL)
              /\ out'.hit => out'.ret = cache_whales.data[1] /\ out'.top = None
              /\ ~out'.hit => out'.top # None
    ]_vars

\* CACHE.get finds the entry set exactly ttl seconds ago
C2_Witness ==
    /\ inp.op = "TTLCache.get" /\ out.hit /\ out.ret = Some("val")
    /\ now - store[inp.key].ts = SNAPSHOT_TTL

\* the entry that the call of inp' reads is set and within its TTL
EntryFresh ==
    \/ inp'.op = "get_crypto_top"
          /\ cache_top.data # None /\ now - cache_top.ts <= CRYPTO_CACHE_TTL
    \/ inp'.op = "scalp_engine" /\ cache_scalp.data # None /\ now - cache_scalp.ts <= SCALP_TTL
    \/ inp'.op = "whale_v2" /\ cache_whales.data # None /\ now - cache_whales.ts <= WHALE_TTL
    \/ inp'.op = "get_indicators" /\ KlineFresh(inp'.key)

\* what the entry read by the call of inp' holds
EntryValue ==
    CASE inp'.op = "get_crypto_top" -> cache_top.data[1]
      [] inp'.op = "scalp_engine" -> cache_scalp.data[1]
      [] inp'.op = "whale_v2" -> cache_whales.data[1]
      [] inp'.op = "get_indicators" -> cache_klines[inp'.key].data

\* what the call that ended in this state returned
Returned(o, op) == IF op = "get_indicators" THEN o.data ELSE o.ret

\* C18: a call of get_crypto_top, scalp_engine, whale_v2 or get_indicators
\* made while its entry is fresh returns the cached value, makes no snapshot,
\* candle or tape fetch and no nested rebuild, and leaves every cache, its
\* timestamps included, as it was; called again after itself inside the TTL
\* window it returns what it returned before.
C18_FreshReadIsPure ==
    [][(calls' = calls + 1 /\ EntryFresh) =>
        /\ ~out'.raised
        /\ Returned(out', inp'.op) = EntryValue
        /\ state' = state
        /\ inp'.op = "get_crypto_top" => out'.snapshot_fetches = 0 /\ out'.kline_fetches = 0
        /\ inp'.op = "scalp_engine" => out'.top = None
        /\ inp'.op = "whale_v2" => out'.top = None /\ out'.tape_fetches = 0
        /\ inp'.op = "get_indicators" => out'.fetches = 0
        /\ (inp.op = inp'.op /\ ~out.raised) =>
              Returned(out', inp'.op) = Returned(out, inp.op)
    ]_vars

\* whale_v2 answered from an entry that is exactly WHALE_TTL seconds old,
\* after a call of whale_v2 that built it
C18_Witness ==
    /\ inp.op = "whale_v2" /\ out.hit /\ calls = 2
    /\ now - cache_whales.ts = WHALE_TTL
    /\ out.ret = cache_whales.data[1] /\ out.tape_fetches = 0

\* the top-picks entry holds a degraded result
DegradedStored ==
    /\ cache_top.data # None
    /\ cache_top.data[1].top_picks = <<>> /\ cache_top.data[1].warnings # <<>>

\* upstream makes the build of this call fail: no snapshot, or no candles
\* for a ranked symbol whose indicator entry is not fresh
BuildFails(i) ==
    \/ i.fetched = None
    \/ \E key \in DOMAIN i.klines : i.klines[key] = None /\ ~KlineFresh(key)

\* C23: a failed top-picks build leaves the degraded result (no top picks, a
\* warning) in the top-picks cache like a normal result; a get_crypto_top
\* call made while that entry is at most CRYPTO_CACHE_TTL seconds old
\* returns it without any upstream fetch, and the first call after that
\* builds again.
C23_DegradedCached ==
    [][(calls' = calls + 1 /\ inp'.op = "get_crypto_top") =>
        /\ (~out'.hit /\ BuildFails(inp')) =>
              /\ out'.ret.top_picks = <<>> /\ out'.ret.warnings # <<>>
              /\ out'.ret.market_gate = "UNKNOWN"
              /\ cache_top' = [ts |-> now, data |-> Some(out'.ret)]
        /\ (DegradedStored /\ now - cache_top.ts <= CRYPTO_CACHE_TTL) =>
              /\ out'.ret = cache_top.data[1]
              /\ out'.snapshot_fetches = 0 /\ out'.kline_fetches = 0
              /\ cache_top' = cache_top
        /\ (DegradedStored /\ now - cache_top.ts > CRYPTO_CACHE_TTL) =>
              /\ out'.snapshot_fetches = 1
              /\ cache_top'.ts = now /\ cache_top'.data = Some(out'.ret)
              /\ ~BuildFails(inp') => out'.ret.warnings = <<>> /\ out'.ret.top_picks # <<>>
    ]_vars

\* the degraded result is served again when it is exactly CRYPTO_CACHE_TTL
\* seconds old
C23_Witness ==
    /\ inp.op = "get_crypto_top" /\ out.hit /\ DegradedStored
    /\ out.ret = cache_top.data[1] /\ out.ret.ts = BOOT_TIME
    /\ now - cache_top.ts = CRYPTO_CACHE_TTL

\* one second later the build is made again: the candles of ETH 1h are still
\* those fetched by the build that failed at ETH 4h
C23_Retried ==
    /\ inp.op = "get_crypto_top" /\ ~out.hit /\ out.ret.top_picks # <<>>
    /\ cache_top.ts = BOOT_TIME + CRYPTO_CACHE_TTL + 1
    /\ cache_klines[<<"ETH", "1h">>].ts = BOOT_TIME
    /\ cache_klines[<<"ETH", "4h">>].ts = BOOT_TIME + CRYPTO_CACHE_TTL + 1

----------------------------------------------------------------------------
(* Rebuilds over a crowd of symbols: how many fetches one call makes       *)

\* snapshots of one symbol more than whale_v2 scans, and of more than TOP_N
\* symbols
FanSnapshots == {Some(Crowd(n, 0)) : n \in {WHALE_PICKS + 1, MaxCrowd}}

\* the tapes of the crowd: every fetch succeeds but the one of ADA
FanTapes ==
    {[pair \in {CrowdBases[i] \o "USDT" : i \in 1..Len(CrowdBases)} |->
         IF pair = "ADAUSDT" THEN None ELSE Some(<<WhaleSell>>)]}

\* the clock, line 15: past the TTL of the whale result, of the top picks, of
\* the indicators
FanTick ==
    /\ ticks < MaxTicks
    /\ \E ttl \in {WHALE_TTL, CRYPTO_CACHE_TTL, KLINES_TTL} : now' = now + ttl + 1
    /\ ticks' = ticks + 1
    /\ UNCHANGED <<cache_top, cache_klines, cache_scalp, cache_whales, store, inp, out,
                   calls, th, wr, HISTORY, last_poll_ts, used>>

\* get_crypto_top(), lines 394-405
FanGetCryptoTop ==
    /\ calls < MaxCalls
    /\ \E snap \in FanSnapshots :
          /\ inp' = [op |-> "get_crypto_top", fetched |-> snap, klines |-> RankKlines,
                      up |-> FALSE]
          /\ out' = get_crypto_top(cache_top, cache_klines, now, snap, RankKlines, FALSE)
    /\ cache_top' = out'.cache_top
    /\ cache_klines' = out'.ck
    /\ calls' = calls + 1
    /\ UNCHANGED <<now, cache_scalp, cache_whales, store, ticks, th, wr, HISTORY, last_poll_ts, used>>

\* whale_v2(), lines 407-472
FanWhaleV2 ==
    /\ calls < MaxCalls
    /\ \E snap \in FanSnapshots, tp \in FanTapes :
          /\ inp' = [op |-> "whale_v2", fetched |-> snap, klines |-> RankKlines, tapes |-> tp,
                      up |-> FALSE]
          /\ out' = whale_v2(cache_whales, cache_top, cache_klines, now, snap, RankKlines, tp,
                             FALSE)
    /\ cache_whales' = out'.cache_whales
    /\ cache_top' = out'.cache_top
    /\ cache_klines' = out'.ck
    /\ calls' = calls + 1
    /\ UNCHANGED <<now, cache_scalp, store, ticks, th, wr, HISTORY, last_poll_ts, used>>

NextFan ==
    \/ FanTick
    \/ FanGetCryptoTop
    \/ FanWhaleV2

SpecFan == InitSeq /\ [][NextFan]_vars

\* the fetches of one rebuild of the top picks, t being what get_crypto_top
\* returned on a miss
TopFetchesBounded(t) ==
    /\ t.snapshot_fetches = 1
    /\ t.kline_fetches <= 3 * TOP_N
    /\ t.kline_fetches = Cardinality({key \in PickKeys(t.picks) : ~KlineFresh(key)})
    /\ (\E key \in PickKeys(t.picks) : KlineFresh(key)) => t.kline_fetches < 3 * Len(t.picks)

\* C19: a rebuild of the top picks makes exactly one snapshot fetch and at
\* most 3 * TOP_N candle fetches, one for each indicator entry of a ranked
\* pick that is not fresh; a rebuild of the whale result makes one tape fetch
\* for each scanned pick, at most 6, and at most one rebuild of the top picks.
C19_BoundedFetches ==
    [][calls' = calls + 1 =>
        /\ (inp'.op = "get_crypto_top" /\ ~out'.hit) => TopFetchesBounded(out')
        /\ (inp'.op = "whale_v2" /\ ~out'.hit) =>
              /\ out'.tape_fetches <= 6
              /\ out'.tape_fetches = Len(out'.picks)
              /\ out'.tape_fetches = Len(out'.ret.pressure)
              /\ out'.top[1].hit => out'.top[1].snapshot_fetches = 0
                                      /\ out'.top[1].kline_fetches = 0
              /\ ~out'.top[1].hit => TopFetchesBounded(out'.top[1])
    ]_vars

\* a whale rebuild on a cold cache over more than TOP_N candidates
C19_Witness ==
    /\ inp.op = "whale_v2" /\ ~out.hit /\ ~out.top[1].hit
    /\ Len(out.top[1].rows_all) > TOP_N
    /\ out.top[1].snapshot_fetches = 1
    /\ out.top[1].kline_fetches = 3 * TOP_N
    /\ Len(out.top[1].ret.top_picks) = TOP_N
    /\ out.tape_fetches = WHALE_PICKS

\* a rebuild of the top picks that finds every indicator entry still fresh
C19_FreshIndicators ==
    /\ inp.op = "get_crypto_top" /\ ~out.hit /\ calls = 2
    /\ Len(out.picks) = TOP_N /\ out.kline_fetches = 0 /\ out.snapshot_fetches = 1

Accessors == {"get_crypto_top", "scalp_engine", "whale_v2", "get_indicators"}

\* C3: no stage accessor raises to its caller; when the top-picks pipeline
\* fails as a whole get_crypto_top returns a result with empty top_picks and
\* a non-empty warnings list, and scalp_engine and whale_v2 evaluated on top
\* of that result return empty opportunity, event and pressure lists.
C3_NeverRaises ==
    inp.op \in Accessors =>
        /\ ~out.raised
        /\ (inp.op = "get_crypto_top" /\ ~out.hit /\ inp.fetched = None) =>
              out.ret.top_picks = <<>> /\ out.ret.warnings # <<>>
        /\ (inp.op = "scalp_engine" /\ ~out.hit /\ out.top[1].ret.warnings # <<>>) =>
              out.ret.opportunities = <<>>
        /\ (inp.op = "whale_v2" /\ ~out.hit /\ out.top[1].ret.warnings # <<>>) =>
              out.ret.events = <<>> /\ out.ret.pressure = <<>>

\* the part of C3 that is about the three accessors behind the API routes
\* of lines 921-931
EndpointsNeverRaise == inp.op = "get_indicators" \/ C3_NeverRaises

----------------------------------------------------------------------------
(* The accessors called one after another, a rebuild taking time           *)

MaxStaleTicks == 2
MaxStaleCalls == 3
\* seconds that may pass between the get_crypto_top() call of a rebuild and
\* the now_ts() of its result and of its store (lines 462 and 470, 531 and 538)
MaxTook == 1

StaleDeltas == {WHALE_TTL, CRYPTO_CACHE_TTL}

\* a falling market
TwoFalling ==
    <<Ticker("ETHUSDT", Some(150000), Some(0 - 5000), Some(100000000)),
      Ticker("BTCUSDT", Some(150000), Some(0 - 5000), Some(200000000))>>
StaleSnapshots == {Some(TwoPicks), Some(TwoFalling)}

\* the clock of now_ts(), line 15, between two calls
StaleTick ==
    /\ ticks < MaxStaleTicks
    /\ \E d \in StaleDeltas : now' = now + d
    /\ ticks' = ticks + 1
    /\ UNCHANGED <<cache_top, cache_klines, cache_scalp, cache_whales, store, inp, out,
                   calls, th, wr, HISTORY, last_poll_ts, used>>

\* what an entry was built from: the top-picks result, the time it was
\* stored at, and the seconds the rebuild took
UsedTop(top, took) == Some([top |-> top.ret, stored |-> top.cache_top.ts, took |-> took])

\* scalp_engine(), lines 474-540; the clock reads of lines 531 and 538 come
\* d seconds after the one of get_crypto_top()
StaleScalp ==
    /\ calls < MaxStaleCalls
    /\ \E f \in StaleSnapshots, d \in 0..MaxTook :
          /\ scalp_hit(cache_scalp, now) => d = 0 /\ f = Some(TwoPicks)
          /\ inp' = [op |-> "scalp_engine", fetched |-> f, took |-> d]
          /\ out' = IF scalp_hit(cache_scalp, now)
                    THEN scalp_engine(cache_scalp, cache_top, cache_klines, now, f,
                                      KlinesAll(K_FULL), FALSE)
                    ELSE scalp_rebuild(cache_scalp,
                                       get_crypto_top(cache_top, cache_klines, now, f,
                                                      KlinesAll(K_FULL), FALSE),
                                       now + d, FALSE)
    /\ now' = now + inp'.took
    /\ cache_scalp' = out'.cache_scalp
    /\ cache_top' = out'.cache_top
    /\ cache_klines' = out'.ck
    /\ used' = IF out'.hit \/ out'.raised THEN used
               ELSE [used EXCEPT !["scalp"] = UsedTop(out'.top[1], inp'.took)]
    /\ calls' = calls + 1
    /\ UNCHANGED <<cache_whales, store, ticks, th, wr, HISTORY, last_poll_ts>>

\* whale_v2(), lines 407-472; the tape fetches of lines 417-421 take d
\* seconds, so the clock reads of lines 462 and 470 come d seconds after the
\* one of get_crypto_top()
StaleWhale ==
    /\ calls < MaxStaleCalls
    /\ \E f \in StaleSnapshots, tp \in TapeOutcomes, d \in 0..MaxTook :
          /\ whale_hit(cache_whales, now) => d = 0 /\ f = Some(TwoPicks)
          /\ inp' = [op |-> "whale_v2", fetched |-> f, took |-> d]
          /\ out' = IF whale_hit(cache_whales, now)
                    THEN whale_v2(cache_whales, cache_top, cache_klines, now, f,
                                  KlinesAll(K_FULL), tp, FALSE)
                    ELSE whale_rebuild(cache_whales,
                                       get_crypto_top(cache_top, cache_klines, now, f,
                                                      KlinesAll(K_FULL), FALSE),
                                       now + d, tp, FALSE)
    /\ now' = now + inp'.took
    /\ cache_whales' = out'.cache_whales
    /\ cache_top' = out'.cache_top
    /\ cache_klines' = out'.ck
    /\ used' = IF out'.hit \/ out'.raised THEN used
               ELSE [used EXCEPT !["whales"] = UsedTop(out'.top[1], inp'.took)]
    /\ calls' = calls + 1
    /\ UNCHANGED <<cache_scalp, store, ticks, th, wr, HISTORY, last_poll_ts>>

NextStale ==
    \/ StaleTick
    \/ StaleScalp
    \/ StaleWhale

SpecStale == InitSeq /\ [][NextStale]_vars

\* the entry that answers a scalp_engine or whale_v2 call, and its TTL
UsedBy(u, op) == IF op = "scalp_engine" THEN u["scalp"] ELSE u["whales"]
TtlOf(op) == IF op = "scalp_engine" THEN SCALP_TTL ELSE WHALE_TTL
StageCall(op) == op \in {"scalp_engine", "whale_v2"}

\* C25 as stated: a result returned by scalp_engine (whale_v2) at time t was
\* computed from a top-picks result stored no earlier than
\* t - (SCALP_TTL + CRYPTO_CACHE_TTL) (t - (WHALE_TTL + CRYPTO_CACHE_TTL)),
\* and the gate of a scalp result is the market_gate of that top-picks result.
C25_AsStated ==
    [][(calls' = calls + 1 /\ StageCall(inp'.op)) =>
        LET u == UsedBy(used', inp'.op)
        IN  /\ u # None
            /\ u[1].stored >= now' - (TtlOf(inp'.op) + CRYPTO_CACHE_TTL)
            /\ inp'.op = "scalp_engine" => out'.ret.gate = u[1].top.market_gate
    ]_vars

\* C25: a result returned by scalp_engine (whale_v2) at time t was computed
\* from a top-picks result stored no earlier than t minus the sum of
\* SCALP_TTL (WHALE_TTL), CRYPTO_CACHE_TTL and the seconds that the rebuild
\* of the result took after its get_crypto_top() call; the gate of a scalp
\* result is the market_gate of that top-picks result.
C25_StalenessBound ==
    [][(calls' = calls + 1 /\ StageCall(inp'.op)) =>
        LET u == UsedBy(used', inp'.op)
        IN  /\ u # None
            /\ u[1].stored >= now' - (TtlOf(inp'.op) + CRYPTO_CACHE_TTL + u[1].took)
            /\ inp'.op = "scalp_engine" => out'.ret.gate = u[1].top.market_gate
    ]_vars

\* a scalp result is returned SCALP_TTL + CRYPTO_CACHE_TTL + 1 seconds after
\* the top-picks result it was built from was stored
C25_Witness ==
    /\ inp.op = "scalp_engine" /\ out.hit /\ used["scalp"] # None
    /\ now - used["scalp"][1].stored = SCALP_TTL + CRYPTO_CACHE_TTL + MaxTook
    /\ out.ret.gate = used["scalp"][1].top.market_gate

\* a scalp result is returned with the gate of the result it was built from
\* while the top-picks cache holds a newer result with another gate
C25_OlderGate ==
    /\ inp.op = "scalp_engine" /\ out.hit /\ used["scalp"] # None
    /\ cache_top.ts > used["scalp"][1].stored
    /\ cache_top.data[1].market_gate # out.ret.gate

----------------------------------------------------------------------------
(* The handlers of lines 921-931 run by the threads of the pool: one step  *)
(* for each access to the module-level caches                              *)

MaxRequests == 3

\* what upstream delivers to a build
ThreadUpstream == {<<Some(TwoPicks), KlinesAll(K_FULL)>>}

\* where each route starts
FirstLine(op) ==
    CASE op = "top" -> "L395" [] op = "scalp" -> "L475" [] op = "whale" -> "L408"

InitThreads ==
    /\ ColdStart
    /\ inp = [op |-> "none"]
    /\ out = None

\* a request arrives and a free thread takes it, lines 921-931
Start ==
    /\ calls < MaxRequests
    /\ \E t \in Threads, op \in {"top", "scalp", "whale"} :
          /\ th[t].pc = "idle"
          /\ th' = [th EXCEPT ![t] = [Idle EXCEPT !.pc = FirstLine(op), !.op = op,
                                                   !.req = calls + 1]]
    /\ calls' = calls + 1
    /\ UNCHANGED <<state, inp, out, ticks, wr, used>>

\* time passes between two steps: long enough for the top-picks entry to expire
Elapse ==
    /\ ticks < MaxTicks
    /\ now' = now + CRYPTO_CACHE_TTL + 1
    /\ ticks' = ticks + 1
    /\ UNCHANGED <<cache_top, cache_klines, cache_scalp, cache_whales, store, inp, out,
                   calls, th, wr, HISTORY, last_poll_ts, used>>

\* get_crypto_top() returns r to thread t: to the route (line 923), to
\* scalp_engine (line 478) or to whale_v2 (line 411)
TopReturns(t, r, torn) ==
    CASE th[t].op = "top" ->
            [th EXCEPT ![t].pc = "idle", ![t].ret = Some(r), ![t].torn = torn]
      [] th[t].op = "scalp" ->
            [th EXCEPT ![t].pc = "L479", ![t].top = Some(r), ![t].torn = torn]
      [] th[t].op = "whale" ->
            [th EXCEPT ![t].pc = "L412", ![t].top = Some(r), ![t].torn = torn]

\* line 395, left operand: is _cache_top["data"] set?
TopTestData ==
    \E t \in Threads :
        /\ th[t].pc = "L395"
        /\ th' = [th EXCEPT ![t].pc = IF cache_top.data # None THEN "L395ts" ELSE "L398"]
        /\ UNCHANGED <<state, inp, out, ticks, calls, wr, used>>

\* line 395, right operand: now_ts() - _cache_top["ts"] <= CRYPTO_CACHE_TTL
TopTestTs ==
    \E t \in Threads :
        /\ th[t].pc = "L395ts"
        /\ th' = [th EXCEPT ![t].pc = IF fresh(now, cache_top.ts, CRYPTO_CACHE_TTL)
                                      THEN "L396" ELSE "L398",
                            ![t].tsby = wr.top.ts]
        /\ UNCHANGED <<state, inp, out, ticks, calls, wr, used>>

\* line 396: return _cache_top["data"]
TopReturnCached ==
    \E t \in Threads :
        /\ th[t].pc = "L396"
        /\ th' = TopReturns(t, cache_top.data[1], th[t].torn \/ th[t].tsby # wr.top.data)
        /\ UNCHANGED <<state, inp, out, ticks, calls, wr, used>>

\* lines 397-402: build_top_picks() inside its try/except
TopBuild ==
    \E t \in Threads, fk \in ThreadUpstream :
        /\ th[t].pc = "L398"
        /\ LET b == build_top_picks(fk[1], cache_klines, now, fk[2], FALSE)
           IN  /\ th' = [th EXCEPT ![t].pc = "L403", ![t].val = Some(top_try(b, now).out)]
               /\ cache_klines' = b.ck
        /\ UNCHANGED <<now, cache_top, cache_scalp, cache_whales, store, inp, out, ticks,
                       calls, wr, HISTORY, last_poll_ts, used>>

\* line 403: _cache_top["ts"] = now_ts()
TopWriteTs ==
    \E t \in Threads :
        /\ th[t].pc = "L403"
        /\ cache_top' = [cache_top EXCEPT !.ts = now]
        /\ wr' = [wr EXCEPT !.top.ts = th[t].req]
        /\ th' = [th EXCEPT ![t].pc = "L404"]
        /\ UNCHANGED <<now, cache_klines, cache_scalp, cache_whales, store, inp, out, ticks,
                       calls, HISTORY, last_poll_ts, used>>

\* lines 404-405: _cache_top["data"] = out; return out
TopWriteData ==
    \E t \in Threads :
        /\ th[t].pc = "L404"
        /\ cache_top' = [cache_top EXCEPT !.data = th[t].val]
        /\ wr' = [wr EXCEPT !.top.data = th[t].req]
        /\ th' = TopReturns(t, th[t].val[1], th[t].torn)
        /\ UNCHANGED <<now, cache_klines, cache_scalp, cache_whales, store, inp, out, ticks,
                       calls, HISTORY, last_poll_ts, used>>

\* line 475, left operand
ScalpTestData ==
    \E t \in Threads :
        /\ th[t].pc = "L475"
        /\ th' = [th EXCEPT ![t].pc = IF cache_scalp.data # None THEN "L475ts" ELSE "L478"]
        /\ UNCHANGED <<state, inp, out, ticks, calls, wr, used>>

\* line 475, right operand
ScalpTestTs ==
    \E t \in Threads :
        /\ th[t].pc = "L475ts"
        /\ th' = [th EXCEPT ![t].pc = IF fresh(now, cache_scalp.ts, SCALP_TTL)
                                      THEN "L476" ELSE "L478",
                            ![t].tsby = wr.scalp.ts]
        /\ UNCHANGED <<state, inp, out, ticks, calls, wr, used>>

\* line 476: return _cache_scalp["data"]
ScalpReturnCached ==
    \E t \in Threads :
        /\ th[t].pc = "L476"
        /\ th' = [th EXCEPT ![t].pc = "idle", ![t].ret = cache_scalp.data,
                            ![t].torn = @ \/ th[t].tsby # wr.scalp.data]
        /\ UNCHANGED <<state, inp, out, ticks, calls, wr, used>>

\* line 478: top = get_crypto_top()
ScalpCallTop ==
    \E t \in Threads :
        /\ th[t].pc = "L478"
        /\ th' = [th EXCEPT ![t].pc = "L395"]
        /\ UNCHANGED <<state, inp, out, ticks, calls, wr, used>>

\* lines 479-536: the opportunities of the picks of top
ScalpBuild ==
    \E t \in Threads :
        /\ th[t].pc = "L479"
        /\ th' = [th EXCEPT ![t].pc = "L538",
                            ![t].val = Some(scalp_build(th[t].top[1], now, FALSE))]
        /\ UNCHANGED <<state, inp, out, ticks, calls, wr, used>>

\* line 538: _cache_scalp["ts"] = now_ts()
ScalpWriteTs ==
    \E t \in Threads :
        /\ th[t].pc = "L538"
        /\ cache_scalp' = [cache_scalp EXCEPT !.ts = now]
        /\ wr' = [wr EXCEPT !.scalp.ts = th[t].req]
        /\ th' = [th EXCEPT ![t].pc = "L539"]
        /\ UNCHANGED <<now, cache_top, cache_klines, cache_whales, store, inp, out, ticks,
                       calls, HISTORY, last_poll_ts, used>>

\* lines 539-540: _cache_scalp["data"] = out; return out
ScalpWriteData ==
    \E t \in Threads :
        /\ th[t].pc = "L539"
        /\ cache_scalp' = [cache_scalp EXCEPT !.data = th[t].val]
        /\ wr' = [wr EXCEPT !.scalp.data = th[t].req]
        /\ th' = [th EXCEPT ![t].pc = "idle", ![t].ret = th[t].val]
        /\ UNCHANGED <<now, cache_top, cache_klines, cache_whales, store, inp, out, ticks,
                       calls, HISTORY, last_poll_ts, used>>

\* line 408, left operand
WhaleTestData ==
    \E t \in Threads :
        /\ th[t].pc = "L408"
        /\ th' = [th EXCEPT ![t].pc = IF cache_whales.data # None THEN "L408ts" ELSE "L411"]
        /\ UNCHANGED <<state, inp, out, ticks, calls, wr, used>>

\* line 408, right operand
WhaleTestTs ==
    \E t \in Threads :
        /\ th[t].pc = "L408ts"
        /\ th' = [th EXCEPT ![t].pc = IF fresh(now, cache_whales.ts, WHALE_TTL)
                                      THEN "L409" ELSE "L411",
                            ![t].tsby = wr.whales.ts]
        /\ UNCHANGED <<state, inp, out, ticks, calls, wr, used>>

\* line 409: return _cache_whales["data"]
WhaleReturnCached ==
    \E t \in Threads :
        /\ th[t].pc = "L409"
        /\ th' = [th EXCEPT ![t].pc = "idle", ![t].ret = cache_whales.data,
                            ![t].torn = @ \/ th[t].tsby # wr.whales.data]
        /\ UNCHANGED <<state, inp, out, ticks, calls, wr, used>>

\* line 411: top = get_crypto_top()
WhaleCallTop ==
    \E t \in Threads :
        /\ th[t].pc = "L411"
        /\ th' = [th EXCEPT ![t].pc = "L395"]
        /\ UNCHANGED <<state, inp, out, ticks, calls, wr, used>>

\* lines 412-468: the tapes of the picks of top are fetched and scanned
WhaleBuild ==
    \E t \in Threads, tp \in TapeOutcomes :
        /\ th[t].pc = "L412"
        /\ LET w == whale_build(th[t].top[1], now, tp, FALSE)
           IN  th' = [th EXCEPT ![t].pc = IF w.raised THEN "idle" ELSE "L470",
                                ![t].val = IF w.raised THEN None ELSE Some(w.out)]
        /\ UNCHANGED <<state, inp, out, ticks, calls, wr, used>>

\* line 470: _cache_whales["ts"] = now_ts()
WhaleWriteTs ==
    \E t \in Threads :
        /\ th[t].pc = "L470"
        /\ cache_whales' = [cache_whales EXCEPT !.ts = now]
        /\ wr' = [wr EXCEPT !.whales.ts = th[t].req]
        /\ th' = [th EXCEPT ![t].pc = "L471"]
        /\ UNCHANGED <<now, cache_top, cache_klines, cache_scalp, store, inp, out, ticks,
                       calls, HISTORY, last_poll_ts, used>>

\* lines 471-472: _cache_whales["data"] = out; return out
WhaleWriteData ==
    \E t \in Threads :
        /\ th[t].pc = "L471"
        /\ cache_whales' = [cache_whales EXCEPT !.data = th[t].val]
        /\ wr' = [wr EXCEPT !.whales.data = th[t].req]
        /\ th' = [th EXCEPT ![t].pc = "idle", ![t].ret = th[t].val]
        /\ UNCHANGED <<now, cache_top, cache_klines, cache_scalp, store, inp, out, ticks,
                       calls, HISTORY, last_poll_ts, used>>

NextThreads ==
    \/ Start
    \/ Elapse
    \/ TopTestData
    \/ TopTestTs
    \/ TopReturnCached
    \/ TopBuild
    \/ TopWriteTs
    \/ TopWriteData
    \/ ScalpTestData
    \/ ScalpTestTs
    \/ ScalpReturnCached
    \/ ScalpCallTop
    \/ ScalpBuild
    \/ ScalpWriteTs
    \/ ScalpWriteData
    \/ WhaleTestData
    \/ WhaleTestTs
    \/ WhaleReturnCached
    \/ WhaleCallTop
    \/ WhaleBuild
    \/ WhaleWriteTs
    \/ WhaleWriteData

SpecThreads == InitThreads /\ [][NextThreads]_vars

\* the lines between a miss on a cache and the end of its recomputation
RebuildLines(c) ==
    CASE c = "top" -> {"L398", "L403", "L404"}
      [] c = "scalp" -> {"L478", "L395", "L395ts", "L396", "L398", "L403", "L404", "L479",
                         "L538", "L539"}
      [] c = "whales" -> {"L411", "L395", "L395ts", "L396", "L398", "L403", "L404", "L412",
                          "L470", "L471"}

\* thread t is recomputing the entry of cache c
InFlight(t, c) ==
    /\ th[t].pc \in RebuildLines(c)
    /\ c = "scalp" => th[t].op = "scalp"
    /\ c = "whales" => th[t].op = "whale"

\* C1: for every cache key at most one recomputation is in flight at any
\* time, even when several requests call the same accessor concurrently and
\* all observe a miss.
C1_SingleFlight ==
    \A c \in TwoFieldCaches : Cardinality({t \in Threads : InFlight(t, c)}) <= 1

\* C6: a cached entry is never observed half-written: the timestamp a reader
\* tests and the value it then returns come from the same write, and once
\* all writers of an entry have finished its timestamp and value are those
\* of one single writer.
C6_NoTornEntry ==
    /\ \A t \in Threads : ~th[t].torn
    /\ \A c \in TwoFieldCaches :
          (\A t \in Threads : ~InFlight(t, c)) => wr[c].ts = wr[c].data
====
